---- MODULE Spec2Model ----
(***************************************************************************)
(* Model of the two correspondence engines of the image-classifier         *)
(* repository:                                                             *)
(*   - src/src/backpamming.py : UltrasoundRemapper (hash index, exact      *)
(*     resolver, run() and the batch over the derivative corpus);          *)
(*   - src/src/main.py        : MedicalImageApp's recommendation engine    *)
(*     (_score_pair_orb, _assign_raw_gt, _build_index,                     *)
(*     _make_recommendations) and its window (viewers, role selections,    *)
(*     save_match, the recommendation table).                              *)
(* Each part has a specification of its own over the shared variables:     *)
(* SpecRemap, SpecRun, SpecScore, SpecRoles, SpecAssign, SpecGreedy,       *)
(* SpecGui and SpecReco.                                                   *)
(***************************************************************************)
EXTENDS Integers, Sequences, FiniteSets, TLC

VARIABLES
    \* ---- backpamming.py: the remapper and the file system it reads
    json_data,           \* the loaded mapping: sequence of [folder, files]
    folders,             \* folders that exist on disk (normalised paths)
    files,               \* files that exist on disk, as <<folder, name>>
    content,             \* decoded content of every PNG of the mapping
    hash_index,          \* self.hash_index, a dict in insertion order
    indexed_log,         \* history: original paths in the order they were hashed
    fi,                  \* build_hash_index: position in json_data.items()
    pi,                  \* build_hash_index: position in png_files (0: folder not entered)
    pc,                  \* "index" | "built" | "resolved"
    query,               \* the derivative image last given to find_matching_original
    match,               \* its result: <<>> for None, <<entry>> for a match
    candidates_checked,  \* find_matching_original's candidates_checked
    \* ---- main.py: _score_pair_orb called on two feature sets, in both orders
    featA,               \* the first image's [kps, desc]
    featB,               \* the second image's [kps, desc]
    scoreAB,             \* trace of _score_pair_orb(descA, kpsA, descB, kpsB)
    scoreBA,             \* trace of _score_pair_orb(descB, kpsB, descA, kpsA)
    spc,                 \* "input" | "scored"
    \* ---- main.py: the recommendation engine
    all_paths,           \* the pool: the PNG paths found for the patient, in walk order
    ix,                  \* _build_index: how many of all_paths have been read
    idx,                 \* the index, a dict in insertion order: path -> entry
    read_log,            \* history: what cv2.imread gave for each path read so far
    cand_pairs,          \* _make_recommendations' `pairs` as it is before the sort
    greedy,              \* the greedy pass: [pairs, pos, st] with st = [used, shortlist, stopped]
    recos,               \* the list _make_recommendations returned
    score_calls,         \* history: the <<p1, p2>> _score_pair_orb was called on, in order
    apc,                 \* "indexing" | "recommended" | "roles" | "classified"
    role_args,           \* the <<p1, p2>> last given to _assign_raw_gt
    roles,               \* _assign_raw_gt(p1, p2, idx) as <<raw, gt>>
    roles_rev,           \* _assign_raw_gt(p2, p1, idx) as <<raw, gt>>
    \* ---- backpamming.py: run() and the batch over the derivative corpus
    mapping_exists,      \* whether the file at self.json_path exists
    roots,               \* the derivative roots run() visits: [name, exists, walk]
    ri,                  \* run(): which root is being visited
    di,                  \* process_filtered_images: position in the walk (0: not started)
    used_files,          \* self.used_files
    unmatched_files,     \* self.unmatched_files
    outputs,             \* output directories created by mkdir
    copied,              \* destination files written by shutil.copy2
    walk_log,            \* history: what was done with each file the walk handed over
    unused_files,        \* run()'s unused_files, <<>> until it is computed
    \* ---- main.py: the viewers, the role selections and the recommendation table
    viewers,             \* self.viewers: viewer_id -> [study_folder, images, current_index, selection_type]
    current_selections,  \* self.current_selections: role -> <<>> for None, <<viewer_id>>
    viewer_counter,      \* self.viewer_counter
    recommendations,     \* self._recommendations
    reco_selection,      \* self.reco_table.selection(): <<>> or <<row>>, rows counted from 0
    mode_var,            \* self.mode_var: "has_gt" | "no_gt"
    organ_var,           \* self.organ_var: "" or an organ
    id_counter,          \* self.id_counter
    out_files,           \* files written under matched_images and pure_raw_images: <<id, kind>>
    processed_files      \* self.processed_files, as the set of <<study_folder, filename>>

remapVars == <<json_data, folders, files, content, hash_index, indexed_log,
               fi, pi, pc, query, match, candidates_checked>>

scoreVars == <<featA, featB, scoreAB, scoreBA, spc>>

mainVars == <<all_paths, ix, idx, read_log, cand_pairs, greedy, recos, score_calls, apc, role_args,
              roles, roles_rev>>

runVars == <<mapping_exists, roots, ri, di, used_files, unmatched_files,
             outputs, copied, walk_log, unused_files>>

guiVars == <<viewers, current_selections, viewer_counter, recommendations, reco_selection,
             mode_var, organ_var, id_counter, out_files, processed_files>>

vars == <<remapVars, scoreVars, mainVars, runVars, guiVars>>

-----------------------------------------------------------------------------
(* Generic helpers *)

Min(S) == CHOOSE m \in S : \A n \in S : m <= n

Max(S) == CHOOSE m \in S : \A n \in S : m >= n

Range(s) == { s[i] : i \in DOMAIN s }

-----------------------------------------------------------------------------
(* backpamming.py                                                          *)

\* Number of originals the mapping lists.
NumOriginals == 2

StemNames == <<"a", "b", "c", "d">>

\* A file name is a sequence of tokens, so that replace() can act on it.
PngFile(i) == <<StemNames[i], ".png">>

\* png_file.replace('.png', ''): every '.png' token is removed.
BaseName(png_file) == SelectSeq(png_file, LAMBDA t : t # ".png")

\* folder_path.replace('\\', '/').replace('//', '/') followed by Path():
\* backslashes become slashes and repeated slashes collapse.
RECURSIVE CollapseSlashes(_)
CollapseSlashes(s) ==
    IF Len(s) < 2 THEN s
    ELSE IF s[1] = "/" /\ s[2] = "/" THEN CollapseSlashes(Tail(s))
    ELSE <<s[1]>> \o CollapseSlashes(Tail(s))

NormalizeFolder(key) ==
    CollapseSlashes([i \in DOMAIN key |-> IF key[i] = "\\" THEN "/" ELSE key[i]])

FolderKey1 == <<"data", "\\", "s1">>

FolderKey2 == <<"data", "/", "/", "s2">>

\* The mappings the model loads: all originals in one folder, or the first
\* original in one folder and the others (with the same file names) in a second.
ManifestFamily ==
    { << [folder |-> FolderKey1, files |-> [i \in 1..NumOriginals |-> PngFile(i)]] >>,
      << [folder |-> FolderKey1, files |-> <<PngFile(1)>>],
         [folder |-> FolderKey2, files |-> [i \in 1..(NumOriginals - 1) |-> PngFile(i)]] >> }

\* folder_path / png_file
JoinPath(folder, name) == <<folder, name>>

ManifestPngs(jd) ==
    UNION { { JoinPath(NormalizeFolder(jd[f].folder), jd[f].files[i]) :
                i \in DOMAIN jd[f].files } : f \in DOMAIN jd }

\* Decoded images: a colour mode, a size and the pixel data getdata() returns.
\* In mode "P" the data are palette indices.
ImageModes == {"L", "P"}

ImageSizes == { <<1, 1>> }

PixelData == {0, 1, 2}

Images == [mode : ImageModes, size : ImageSizes, data : PixelData]

\* A file Image.open() cannot decode.
Corrupt == [mode |-> "corrupt", size |-> <<0, 0>>, data |-> 0]

Contents == Images \cup {Corrupt}

Decodable(img) == img.mode # "corrupt"

\* What the image shows: a palette image shows its palette's colours
\* (here the palette that inverts the index), any other mode its data.
Render(img) == IF img.mode = "P" THEN 2 - img.data ELSE img.data

\* imagehash.phash: a perceptual hash of the rendered grey image; it keeps
\* the coarse structure and drops fine detail, so it is not injective.
PHash(img) == Render(img) \div 2

\* The pixel content of an image: what it shows, at its size.
PixelContent(img) == <<img.size, Render(img)>>

\* Which of an original's files exist.
ExistPatterns ==
    { {}, {"png"}, {"png", "json"}, {"png", "anon"},
      {"png", "json", "anon"}, {"png", "json", "dcm"},
      {"png", "json", "anon", "dcm"} }

\* The patterns with an image, a metadata sidecar and a device sidecar.
CompletePattern(pat) == {"png", "json"} \subseteq pat /\ pat \cap {"anon", "dcm"} # {}

\* The content of an image file that no step of the program decodes.
UnopenedImage == CHOOSE img \in Images : TRUE

JsonPath(folder, base) == JoinPath(folder, base \o <<".json">>)

AnonDicomPath(folder, base) == JoinPath(folder, base \o <<"_anon.dcm">>)

AltDicomPath(folder, base) == JoinPath(folder, base \o <<".dcm">>)

FilesOf(png, pat) ==
    LET folder == png[1]
        base == BaseName(png[2])
    IN  (IF "png" \in pat THEN {png} ELSE {})
        \cup (IF "json" \in pat THEN {JsonPath(folder, base)} ELSE {})
        \cup (IF "anon" \in pat THEN {AnonDicomPath(folder, base)} ELSE {})
        \cup (IF "dcm" \in pat THEN {AltDicomPath(folder, base)} ELSE {})

Exists(path) == path \in files

\* Lines 86-101: the triplet of an original, with the alternative DICOM name.
TripletOf(folder, png_file) ==
    LET base_name == BaseName(png_file)
        anon == AnonDicomPath(folder, base_name)
        alt == AltDicomPath(folder, base_name)
    IN  [png |-> JoinPath(folder, png_file),
         json |-> JsonPath(folder, base_name),
         dicom |-> IF ~Exists(anon) /\ Exists(alt) THEN alt ELSE anon]

\* Line 104 looking at the image only, for comparison.
MissingFilesImageOnly(triplet) == { k \in {"png"} : ~Exists(triplet[k]) }

\* missing_files = [k for k, v in triplet.items() if not v.exists()]
MissingFiles(triplet) == { k \in DOMAIN triplet : ~Exists(triplet[k]) }

\* A Python dict as the sequence of its items in insertion order.
DictHas(d, k) == \E i \in DOMAIN d : d[i].key = k

DictGet(d, k) == d[CHOOSE i \in DOMAIN d : d[i].key = k].val

\* d[k] = v keeps every other item; a first-write-wins variant for comparison.
DictSetKeepFirst(d, k, v) ==
    IF DictHas(d, k) THEN d ELSE Append(d, [key |-> k, val |-> v])

DictSet(d, k, v) ==
    IF DictHas(d, k)
    THEN [i \in DOMAIN d |-> IF d[i].key = k THEN [key |-> k, val |-> v] ELSE d[i]]
    ELSE Append(d, [key |-> k, val |-> v])

\* The remapper's variables in a specification that does not run it.
RemapUnused ==
    /\ json_data = <<>>
    /\ folders = {}
    /\ files = {}
    /\ content = <<>>
    /\ hash_index = <<>>
    /\ indexed_log = <<>>
    /\ fi = 1
    /\ pi = 0
    /\ pc = "unused"
    /\ query = Corrupt
    /\ match = <<>>
    /\ candidates_checked = 0

\* The scorer's variables in a specification that does not run it.
ScoreUnused ==
    /\ featA = [kps |-> <<>>, desc |-> <<>>]
    /\ featB = [kps |-> <<>>, desc |-> <<>>]
    /\ scoreAB = [good |-> 0, fitted |-> FALSE, score |-> 0]
    /\ scoreBA = [good |-> 0, fitted |-> FALSE, score |-> 0]
    /\ spc = "input"

\* The greedy pass before it has started.
NoGreedyPass ==
    [pairs |-> <<>>, pos |-> 1, st |-> [used |-> {}, shortlist |-> <<>>, stopped |-> FALSE]]

\* The recommendation engine's variables in a specification that does not run it.
MainUnused ==
    /\ all_paths = <<>>
    /\ ix = 0
    /\ idx = <<>>
    /\ read_log = <<>>
    /\ cand_pairs = <<>>
    /\ greedy = NoGreedyPass
    /\ recos = <<>>
    /\ score_calls = <<>>
    /\ apc = "unused"
    /\ role_args = <<>>
    /\ roles = <<>>
    /\ roles_rev = <<>>

\* The batch's variables in a specification that does not run it.
RunUnused ==
    /\ mapping_exists = TRUE
    /\ roots = <<>>
    /\ ri = 1
    /\ di = 0
    /\ used_files = {}
    /\ unmatched_files = <<>>
    /\ outputs = {}
    /\ copied = {}
    /\ walk_log = <<>>
    /\ unused_files = <<>>

\* The application window's variables in a specification that does not run it.
GuiUnused ==
    /\ viewers = <<>>
    /\ current_selections = [raw |-> <<>>, ground_truth |-> <<>>]
    /\ viewer_counter = 0
    /\ recommendations = <<>>
    /\ reco_selection = <<>>
    /\ mode_var = "has_gt"
    /\ organ_var = ""
    /\ id_counter = 0
    /\ out_files = {}
    /\ processed_files = {}

InitRemap ==
    /\ json_data \in ManifestFamily
    /\ folders \in SUBSET { NormalizeFolder(json_data[f].folder) : f \in DOMAIN json_data }
    /\ \E pat \in [ManifestPngs(json_data) -> ExistPatterns] :
       \E img \in [ManifestPngs(json_data) -> Contents] :
          /\ \A p \in ManifestPngs(json_data) :
                /\ p[1] \notin folders => pat[p] = {}
                \* a file that does not exist has no content to decode
                /\ "png" \notin pat[p] => img[p] = Corrupt
                \* the code never opens the image of an incomplete original:
                \* one decodable content stands for all it may hold
                /\ ("png" \in pat[p] /\ ~CompletePattern(pat[p])) => img[p] = UnopenedImage
          /\ files = UNION { FilesOf(p, pat[p]) : p \in ManifestPngs(json_data) }
          /\ content = img
    /\ hash_index = <<>>
    /\ indexed_log = <<>>
    /\ fi = 1
    /\ pi = 0
    /\ pc = "index"
    /\ query = Corrupt
    /\ match = <<>>
    /\ candidates_checked = 0
    /\ ScoreUnused
    /\ MainUnused
    /\ RunUnused
    /\ GuiUnused

\* Lines 53-69: the next folder of json_data.items(); a folder that does not
\* exist is skipped.
EnterFolder ==
    /\ pc = "index"
    /\ fi <= Len(json_data)
    /\ pi = 0
    /\ IF NormalizeFolder(json_data[fi].folder) \in folders /\ Len(json_data[fi].files) > 0
       THEN pi' = 1 /\ fi' = fi
       ELSE pi' = 0 /\ fi' = fi + 1
    /\ UNCHANGED <<json_data, folders, files, content, hash_index, indexed_log,
                   pc, query, match, candidates_checked>>
    /\ UNCHANGED <<scoreVars, mainVars, runVars, guiVars>>

\* Stopping at the first png_file that is not indexed, for comparison.
NextFileStopAtSkip(f, i, indexed) ==
    IF ~indexed THEN [fi |-> Len(json_data) + 1, pi |-> 0]
    ELSE IF i < Len(json_data[f].files) THEN [fi |-> f, pi |-> i + 1]
    ELSE [fi |-> f + 1, pi |-> 0]

\* Lines 72, 81, 107, 128-129: the loop goes on with the next png_file, and
\* after the last one with the next folder, whether or not this one was indexed.
NextFile(f, i, indexed) ==
    IF i < Len(json_data[f].files) THEN [fi |-> f, pi |-> i + 1]
    ELSE [fi |-> f + 1, pi |-> 0]

\* Lines 72-129: one png_file of the current folder.
IndexFile ==
    /\ pc = "index"
    /\ fi <= Len(json_data)
    /\ pi >= 1
    /\ LET folder_path == NormalizeFolder(json_data[fi].folder)
           png_files == json_data[fi].files
           png_file == png_files[pi]
           png_path == JoinPath(folder_path, png_file)
           base_name == BaseName(png_file)
           triplet == TripletOf(folder_path, png_file)
           img == content[png_path]
           hash_key == PHash(img)
           entry == [base_name |-> base_name, triplet |-> triplet, original_path |-> png_path]
           indexedNow == /\ Exists(png_path)
                         /\ MissingFiles(triplet) = {}
                         /\ Decodable(img)
       IN  /\ hash_index' = IF indexedNow THEN DictSet(hash_index, hash_key, entry)
                            ELSE hash_index
           /\ indexed_log' = IF indexedNow THEN Append(indexed_log, png_path)
                             ELSE indexed_log
           /\ fi' = NextFile(fi, pi, indexedNow).fi
           /\ pi' = NextFile(fi, pi, indexedNow).pi
    /\ UNCHANGED <<json_data, folders, files, content, pc, query, match, candidates_checked>>
    /\ UNCHANGED <<scoreVars, mainVars, runVars, guiVars>>

\* Line 133: the loop over json_data.items() has ended.
IndexBuilt ==
    /\ pc = "index"
    /\ fi > Len(json_data)
    /\ pc' = "built"
    /\ UNCHANGED <<json_data, folders, files, content, hash_index, indexed_log,
                   fi, pi, query, match, candidates_checked>>
    /\ UNCHANGED <<scoreVars, mainVars, runVars, guiVars>>

\* Line 171: img.size == original_img.size and filtered_pixels == original_pixels
PixelMatch(img, original_img) ==
    img.size = original_img.size /\ img.data = original_img.data

\* Lines 135-184: [result, checked], result <<>> for None.
FindMatchingOriginal(img) ==
    IF ~Decodable(img)
    THEN [result |-> <<>>, checked |-> 0]
    ELSE LET img_hash == PHash(img)
         IN  IF DictHas(hash_index, img_hash)
             THEN [result |-> <<DictGet(hash_index, img_hash)>>, checked |-> 0]
             ELSE LET hits == { i \in DOMAIN hash_index :
                                  /\ Decodable(content[hash_index[i].val.triplet.png])
                                  /\ PixelMatch(img, content[hash_index[i].val.triplet.png]) }
                  IN  IF hits = {}
                      THEN [result |-> <<>>, checked |-> Len(hash_index)]
                      ELSE [result |-> <<hash_index[Min(hits)].val>>, checked |-> Min(hits)]

\* A resolver that takes the entry it returns out of the index, for comparison.
IndexAfterMatchConsumed(index, m) ==
    IF m = <<>> THEN index ELSE SelectSeq(index, LAMBDA e : e.val # m[1])

\* Lines 135-222: self.hash_index after a derivative has been resolved. The
\* two functions only read the index and the entry they are handed (membership
\* and subscript at 148-149, iteration at 161, subscripts at 204-214).
IndexAfterMatch(index, m) == index

\* find_matching_original called on a derivative image once the index is built.
Resolve ==
    /\ pc \in {"built", "resolved"}
    /\ \E img \in Contents :
          LET r == FindMatchingOriginal(img)
          IN  /\ query' = img
              /\ match' = r.result
              /\ candidates_checked' = r.checked
              /\ hash_index' = IndexAfterMatch(hash_index, r.result)
    /\ pc' = "resolved"
    /\ UNCHANGED <<json_data, folders, files, content, indexed_log, fi, pi>>
    /\ UNCHANGED <<scoreVars, mainVars, runVars, guiVars>>

NextRemap == EnterFolder \/ IndexFile \/ IndexBuilt \/ Resolve

SpecRemap == InitRemap /\ [][NextRemap]_vars

-----------------------------------------------------------------------------
(* backpamming.py: run() and process_filtered_images                       *)

\* Most PNG files a walk of matched_images hands over.
MaxDerivatives == 2

\* The mapping run() loads in the batch model: one folder, three originals.
RunManifest ==
    << [folder |-> FolderKey1, files |-> <<PngFile(1), PngFile(2), PngFile(3)>>] >>

Grey(d) == [mode |-> "L", size |-> <<1, 1>>, data |-> d]

Palette(d) == [mode |-> "P", size |-> <<1, 1>>, data |-> d]

\* Originals of the batch model: Grey(0) and Grey(1) have the same fingerprint.
RunOriginalContents == { Grey(0), Grey(1), Grey(2), Corrupt }

\* Derivatives of the batch model.
DerivContents == { Grey(0), Grey(2), Palette(2), Corrupt }

\* The files os.walk yields under a root, as [dir, name, img]; dir is the
\* directory relative to the root.
DerivNames == << <<"x", ".png">>, <<"y", ".PNG">>, <<"z", ".png">> >>

DerivDirs == << ".", "sub", "." >>

NotesFile == [dir |-> ".", name |-> <<"notes", ".txt">>, img |-> Corrupt]

DerivFile(i, img) == [dir |-> DerivDirs[i], name |-> DerivNames[i], img |-> img]

MatchedWalks ==
    UNION { { <<NotesFile>> \o [i \in 1..k |-> DerivFile(i, c[i])] :
                c \in [1..k -> DerivContents] } : k \in 0..MaxDerivatives }

PureRawWalks ==
    { <<>> } \cup { << [dir |-> ".", name |-> <<"r", ".png">>, img |-> c] >> :
                      c \in { Grey(0), Grey(2) } }

\* The two roots run() visits under data_matched_path (lines 233, 241).
RootFamily ==
    { << [name |-> "matched_images", exists |-> m.exists, walk |-> m.walk],
         [name |-> "pure_raw_images", exists |-> r.exists, walk |-> r.walk] >> :
        m \in { [exists |-> FALSE, walk |-> <<>>] }
                 \cup { [exists |-> TRUE, walk |-> w] : w \in MatchedWalks },
        r \in { [exists |-> FALSE, walk |-> <<>>] }
                 \cup { [exists |-> TRUE, walk |-> w] : w \in PureRawWalks } }

\* file.lower().endswith('.png'), on the extension token of the name
LowerExt(t) == IF t = ".PNG" THEN ".png" ELSE IF t = ".TXT" THEN ".txt" ELSE t

IsPngName(name) == Len(name) > 0 /\ LowerExt(name[Len(name)]) = ".png"

\* Path(root) / file, for a file of the walk of a root
FilteredImagePath(root_name, f) == <<root_name, f.dir, f.name>>

\* output_root / rel_path.parent / match['base_name']
OutputDir(root_name, f, base_name) == <<root_name, f.dir, base_name>>

\* The outcomes of copying a triplet: the file types whose copy2 raises.
CopyFaults == { {}, {"json"}, {"png", "json", "dicom"} }

\* Line 199, and a variant that forgets the path, for comparison.
RecordUnmatchedNever(list, path) == list

RecordUnmatched(list, path) == Append(list, path)

InitRun ==
    /\ mapping_exists \in BOOLEAN
    /\ json_data = IF mapping_exists THEN RunManifest ELSE <<>>
    /\ folders \in SUBSET { NormalizeFolder(json_data[f].folder) : f \in DOMAIN json_data }
    /\ \E complete \in [ManifestPngs(json_data) -> BOOLEAN] :
       \E img \in [ManifestPngs(json_data) -> RunOriginalContents] :
          /\ \A p \in ManifestPngs(json_data) :
                /\ p[1] \notin folders => ~complete[p]
                /\ ~complete[p] => img[p] = Corrupt
          /\ files = UNION { FilesOf(p, IF complete[p] THEN {"png", "json", "anon"}
                                        ELSE IF p[1] \in folders THEN {"png"} ELSE {}) :
                             p \in ManifestPngs(json_data) }
          /\ content = img
    /\ roots \in RootFamily
    /\ ~mapping_exists => roots[2].walk = <<>> /\ Len(roots[1].walk) <= 1
    /\ hash_index = <<>>
    /\ indexed_log = <<>>
    /\ fi = 1
    /\ pi = 0
    /\ pc = "load"
    /\ query = Corrupt
    /\ match = <<>>
    /\ candidates_checked = 0
    /\ ri = 1
    /\ di = 0
    /\ used_files = {}
    /\ unmatched_files = <<>>
    /\ outputs = {}
    /\ copied = {}
    /\ walk_log = <<>>
    /\ unused_files = <<>>
    /\ ScoreUnused
    /\ MainUnused
    /\ GuiUnused

\* Lines 229, 40-44: open() raises when the mapping file does not exist and
\* nothing in run() catches it.
LoadJsonMapping ==
    /\ pc = "load"
    /\ pc' = IF mapping_exists THEN "index" ELSE "aborted"
    /\ UNCHANGED <<json_data, folders, files, content, hash_index, indexed_log,
                   fi, pi, query, match, candidates_checked>>
    /\ UNCHANGED <<scoreVars, mainVars, runVars, guiVars>>

\* Lines 233-246: the next root; a root that does not exist is passed over.
VisitRoot ==
    /\ pc \in {"built", "batch"}
    /\ ri <= Len(roots)
    /\ di = 0
    /\ pc' = "batch"
    /\ IF roots[ri].exists /\ Len(roots[ri].walk) > 0
       THEN di' = 1 /\ ri' = ri
       ELSE di' = 0 /\ ri' = ri + 1
    /\ UNCHANGED <<mapping_exists, roots, used_files, unmatched_files, outputs,
                   copied, walk_log, unused_files>>
    /\ UNCHANGED <<json_data, folders, files, content, hash_index, indexed_log,
                   fi, pi, query, match, candidates_checked>>
    /\ UNCHANGED <<scoreVars, mainVars, guiVars>>

\* Lines 189-222: one file of the walk.  mkdir is outside every try block, so
\* an error it raises leaves process_filtered_images and run().
ProcessFile ==
    /\ pc = "batch"
    /\ ri <= Len(roots)
    /\ di >= 1
    /\ LET root == roots[ri]
           file == root.walk[di]
           filtered_image_path == FilteredImagePath(root.name, file)
           m == FindMatchingOriginal(file.img).result
           advance == IF di < Len(root.walk)
                      THEN di' = di + 1 /\ ri' = ri
                      ELSE di' = 0 /\ ri' = ri + 1
       IN  IF ~IsPngName(file.name)
           THEN /\ advance
                /\ UNCHANGED <<pc, used_files, unmatched_files, outputs, copied, walk_log,
                               hash_index>>
           ELSE /\ hash_index' = IndexAfterMatch(hash_index, m)
                /\ IF m = <<>>
                   THEN /\ unmatched_files' = RecordUnmatched(unmatched_files, filtered_image_path)
                        /\ walk_log' = Append(walk_log, [path |-> filtered_image_path,
                                                         match |-> m, output_dir |-> <<>>])
                        /\ advance
                        /\ UNCHANGED <<pc, used_files, outputs, copied>>
                   ELSE LET output_dir == OutputDir(root.name, file, m[1].base_name)
                        IN  /\ used_files' = used_files \cup {m[1].original_path}
                            /\ \E mkdir_ok \in (IF output_dir \in outputs THEN {TRUE} ELSE BOOLEAN) :
                                  IF mkdir_ok
                                  THEN /\ outputs' = outputs \cup {output_dir}
                                       /\ \E failed \in CopyFaults :
                                             copied' = copied \cup
                                                { <<output_dir, m[1].triplet[k][2]>> :
                                                    k \in DOMAIN m[1].triplet \ failed }
                                       /\ walk_log' = Append(walk_log,
                                             [path |-> filtered_image_path, match |-> m,
                                              output_dir |-> <<output_dir>>])
                                       /\ advance
                                       /\ pc' = pc
                                  ELSE /\ pc' = "aborted"
                                       /\ walk_log' = Append(walk_log,
                                             [path |-> filtered_image_path, match |-> m,
                                              output_dir |-> <<>>])
                                       /\ UNCHANGED <<ri, di, outputs, copied>>
                            /\ UNCHANGED unmatched_files
    /\ UNCHANGED <<mapping_exists, roots, unused_files>>
    /\ UNCHANGED <<json_data, folders, files, content, indexed_log,
                   fi, pi, query, match, candidates_checked>>
    /\ UNCHANGED <<scoreVars, mainVars, guiVars>>

\* Lines 249-250: all_original_files and unused_files.
AllOriginalFiles == { hash_index[i].val.original_path : i \in DOMAIN hash_index }

UnusedFiles == AllOriginalFiles \ used_files

\* Lines 248-271: the report, once both roots have been visited.
Report ==
    /\ pc \in {"built", "batch"}
    /\ ri > Len(roots)
    /\ unused_files' = <<UnusedFiles>>
    /\ pc' = "done"
    /\ UNCHANGED <<mapping_exists, roots, ri, di, used_files, unmatched_files,
                   outputs, copied, walk_log>>
    /\ UNCHANGED <<json_data, folders, files, content, hash_index, indexed_log,
                   fi, pi, query, match, candidates_checked>>
    /\ UNCHANGED <<scoreVars, mainVars, guiVars>>

NextRun ==
    LoadJsonMapping \/ EnterFolder \/ IndexFile \/ IndexBuilt \/ VisitRoot
        \/ ProcessFile \/ Report

SpecRun == InitRun /\ [][NextRun]_vars


-----------------------------------------------------------------------------
(* main.py: the pairwise scorer, _score_pair_orb                           *)

\* A binary descriptor is the set of its bit positions that are 1; a desc of
\* <<>> stands for the None that ORB returns for an image with no keypoints.

\* cv2.NORM_HAMMING
Hamming(d1, d2) == Cardinality((d1 \ d2) \cup (d2 \ d1))

\* bf.knnMatch(desc1, desc2, k=2): for each query descriptor its (up to) two
\* nearest train descriptors, nearest first.
KnnMatch(desc1, desc2) ==
    [q \in DOMAIN desc1 |->
        LET D == [t \in DOMAIN desc2 |-> Hamming(desc1[q], desc2[t])]
            Nearest(S) == CHOOSE t \in S :
                              \A u \in S : D[t] < D[u] \/ (D[t] = D[u] /\ t <= u)
            DMatch(t) == [queryIdx |-> q, trainIdx |-> t, distance |-> D[t]]
        IN  IF Len(desc2) = 0 THEN <<>>
            ELSE IF Len(desc2) = 1 THEN <<DMatch(1)>>
            ELSE LET best == Nearest(DOMAIN desc2)
                 IN  <<DMatch(best), DMatch(Nearest(DOMAIN desc2 \ {best}))>>]

\* Line 829: m.distance < 0.75 * n.distance.
RatioTest(m, n) == 4 * m.distance < 3 * n.distance

\* Lines 824-830: the matches that survive the ratio test, in query order.
GoodMatches(desc1, desc2) ==
    LET knn == KnnMatch(desc1, desc2)
        kept == SelectSeq(knn, LAMBDA m_n :
                    Len(m_n) = 2 /\ RatioTest(m_n[1], m_n[2]))
    IN  [i \in DOMAIN kept |-> kept[i][1]]

\* The reprojection threshold of line 837, in pixels.
RansacReprojThreshold == 5

\* The fewest correspondences that determine a homography.
MinSampleSize == 4

\* cv2.findHomography(src, dst, cv2.RANSAC, 5.0), abstracted to its consensus
\* step over translations: every correspondence proposes the transform that
\* maps its source onto its destination, the transform with the most
\* correspondences within the threshold wins, and the mask marks its inliers.
\* <<>> stands for a mask of None (no transform has enough support).
FindHomography(src, dst) ==
    LET Within(k, j) ==
            \* correspondence k under the transform proposed by correspondence j
            LET ex == (src[k][1] + (dst[j][1] - src[j][1])) - dst[k][1]
                ey == (src[k][2] + (dst[j][2] - src[j][2])) - dst[k][2]
            IN  ex * ex + ey * ey <= RansacReprojThreshold * RansacReprojThreshold
        Support(j) == Cardinality({ k \in DOMAIN src : Within(k, j) })
        best == CHOOSE j \in DOMAIN src :
                    \A u \in DOMAIN src :
                        Support(j) > Support(u) \/ (Support(j) = Support(u) /\ j <= u)
    IN  IF Len(src) < MinSampleSize \/ Support(best) < MinSampleSize
        THEN <<>>
        ELSE [k \in DOMAIN src |-> IF Within(k, best) THEN 1 ELSE 0]

RECURSIVE SumSeq(_)
SumSeq(s) == IF s = <<>> THEN 0 ELSE s[1] + SumSeq(Tail(s))

\* Line 819: the fewest descriptors an image needs.
MinDescriptors == 8

\* Line 832: the fewest ratio-test survivors needed.
MinGoodMatches == 8

\* Line 832, if len(good) < 8; off-by-one variant for comparison.
TooFewGoodLoose(good) == Len(good) < MinGoodMatches - 1

TooFewGood(good) == Len(good) < MinGoodMatches

\* Lines 817-840, with what the call did: the number of ratio-test survivors,
\* whether findHomography was called, and the returned score.
ScoreTrace(desc1, kps1, desc2, kps2) ==
    IF Len(desc1) < MinDescriptors \/ Len(desc2) < MinDescriptors
    THEN [good |-> 0, fitted |-> FALSE, score |-> 0]
    ELSE LET good == GoodMatches(desc1, desc2)
         IN  IF TooFewGood(good)
             THEN [good |-> Len(good), fitted |-> FALSE, score |-> 0]
             ELSE LET src == [i \in DOMAIN good |-> kps1[good[i].queryIdx]]
                      dst == [i \in DOMAIN good |-> kps2[good[i].trainIdx]]
                      mask == FindHomography(src, dst)
                  IN  [good |-> Len(good), fitted |-> TRUE,
                       score |-> IF mask = <<>> THEN 0 ELSE SumSeq(mask)]

ScorePairOrb(desc1, kps1, desc2, kps2) == ScoreTrace(desc1, kps1, desc2, kps2).score

\* ---- the feature sets the scorer is run on
\* An image of a scene with landmarks first..first+n-1: landmark i gives one
\* keypoint at x = 10*i whose descriptor is bit i plus `noise` corrupted bits.
\* dup: every keypoint is detected twice (one pixel apart, same descriptor).
\* geom: how the image is deformed ("same": not at all; "jitter": every other
\* keypoint moves 3 px; "split": the keypoints after the fourth move 40 px;
\* "scramble": keypoint i moves 7*i px).
Geoms == {"same", "jitter", "split", "scramble"}

KeypointCounts == {MinDescriptors - 1, MinDescriptors, MinDescriptors + 1}

NoiseLevels == {0, 5, 6}

FirstLandmarks == {1, 3}

FeatureParams ==
    { p \in [n : KeypointCounts, first : FirstLandmarks, noise : NoiseLevels,
             dup : BOOLEAN, geom : Geoms] :
        Cardinality({ v \in {"noise", "dup", "geom"} :
            \/ v = "noise" /\ p.noise # 0
            \/ v = "dup" /\ p.dup
            \/ v = "geom" /\ p.geom # "same" }) <= 1 }

NoiseBits(noise) == { 100 + j : j \in 1..noise }

Displacement(geom, k) ==
    CASE geom = "same" -> 0
      [] geom = "jitter" -> IF k % 2 = 0 THEN 3 ELSE 0
      [] geom = "split" -> IF k > 4 THEN 40 ELSE 0
      [] geom = "scramble" -> 7 * k

FeatureSet(p) ==
    LET copies == IF p.dup THEN 2 ELSE 1
        Landmark(j) == p.first + ((j - 1) \div copies)
        Copy(j) == (j - 1) % copies
    IN  [kps |-> [j \in 1..(p.n * copies) |->
                    <<10 * Landmark(j) + Displacement(p.geom, (j - 1) \div copies + 1),
                      Copy(j)>>],
         desc |-> [j \in 1..(p.n * copies) |-> {Landmark(j)} \cup NoiseBits(p.noise)]]

NoFeatures == [kps |-> <<>>, desc |-> <<>>]

ScoreInputs == { FeatureSet(p) : p \in FeatureParams } \cup {NoFeatures}

InitScore ==
    /\ featA \in ScoreInputs
    /\ featB \in ScoreInputs
    /\ scoreAB = [good |-> 0, fitted |-> FALSE, score |-> 0]
    /\ scoreBA = [good |-> 0, fitted |-> FALSE, score |-> 0]
    /\ spc = "input"
    /\ RemapUnused
    /\ MainUnused
    /\ RunUnused
    /\ GuiUnused

\* _score_pair_orb on the two images, in both argument orders.
ScorePair ==
    /\ spc = "input"
    /\ scoreAB' = ScoreTrace(featA.desc, featA.kps, featB.desc, featB.kps)
    /\ scoreBA' = ScoreTrace(featB.desc, featB.kps, featA.desc, featA.kps)
    /\ spc' = "scored"
    /\ UNCHANGED <<featA, featB>>
    /\ UNCHANGED <<remapVars, mainVars, runVars, guiVars>>

NextScore == ScorePair

SpecScore == InitScore /\ [][NextScore]_vars

-----------------------------------------------------------------------------
(* main.py: _build_index                                                   *)

\* A path is the sequence of its characters' code points, so that Python's
\* string comparison and lower() can act on it.
PathGT == <<71, 84>>          \* "GT"

PathA == <<97>>               \* "a"

PathAB == <<97, 98>>          \* "ab"

PathB == <<98>>               \* "b"

PathGt == <<103, 116>>        \* "gt"

PathSeg == <<115, 101, 103>>  \* "seg"

PathUniverse == {PathGT, PathA, PathAB, PathB, PathGt, PathSeg}

\* str.lower()
Lower(str) == [i \in DOMAIN str |-> IF str[i] \in 65..90 THEN str[i] + 32 ELSE str[i]]

\* h in s
IsSubstring(h, str) ==
    \E i \in 1..(Len(str) - Len(h) + 1) : SubSeq(str, i, i + Len(h) - 1) = h

\* Line 800
GtHints ==
    { <<103, 116>>,                                                  \* "gt"
      <<103, 114, 111, 117, 110, 100, 95, 116, 114, 117, 116, 104>>,  \* "ground_truth"
      <<103, 114, 111, 117, 110, 100, 45, 116, 114, 117, 116, 104>>,  \* "ground-truth"
      <<109, 97, 115, 107>>,                                          \* "mask"
      <<97, 110, 110, 111, 116>>,                                     \* "annot"
      <<108, 97, 98, 101, 108>>,                                      \* "label"
      <<115, 101, 103>>,                                              \* "seg"
      <<111, 118, 101, 114, 108, 97, 121>>,                           \* "overlay"
      <<99, 111, 110, 116, 111, 117, 114>> }                          \* "contour"

\* Lines 797-801
NameHasGtHint(path_lower) == \E h \in GtHints : IsSubstring(h, path_lower)

\* p1 < p2 on Python strings: by code point, a proper prefix first.
RECURSIVE StrLess(_, _)
StrLess(s1, s2) ==
    IF s2 = <<>> THEN FALSE
    ELSE IF s1 = <<>> THEN TRUE
    ELSE IF s1[1] # s2[1] THEN s1[1] < s2[1]
    ELSE StrLess(Tail(s1), Tail(s2))

\* What cv2.imread, the yellow mask and ORB give for a file: the image's shape
\* <<h, w>>, the number of yellow pixels and the features detected.  A shape
\* of <<0, 0>> stands for the None cv2.imread returns for an unreadable file.
Unreadable == [shape |-> <<0, 0>>, yellow_count |-> 0, feat |-> NoFeatures]

\* Line 874; a variant that takes every file for readable, for comparison.
IsNoneNever(img) == FALSE

IsNone(img) == img.shape = <<0, 0>>

\* Line 804, max_side
MaxSide == 900

\* Lines 803-811: the shape of the grey image after the resize (the shapes
\* used are ones whose scale factor is exact in floating point).
PrepGrayShape(shape) ==
    LET h == shape[1]
        w == shape[2]
        longest == IF h > w THEN h ELSE w
    IN  IF longest > MaxSide
        THEN <<(h * MaxSide) \div longest, (w * MaxSide) \div longest>>
        ELSE shape

\* Lines 876-888: the entry _build_index stores for a readable image.
IndexEntry(full, img) ==
    LET gray == PrepGrayShape(img.shape)
    IN  [kps |-> img.feat.kps,
         desc |-> img.feat.desc,
         area |-> gray[1] * gray[2],
         has_yellow |-> img.yellow_count > 0,
         yellow_count |-> img.yellow_count,
         yellow_frac |-> <<img.yellow_count, img.shape[1] * img.shape[2]>>,
         name_gt_hint |-> NameHasGtHint(Lower(full))]

-----------------------------------------------------------------------------
(* main.py: the role classifier, _assign_raw_gt                            *)

\* Line 925; a variant that ignores the comparison, for comparison.
FallbackOrderUnsorted(p1, p2) == <<p1, p2>>

FallbackOrder(p1, p2) == IF StrLess(p1, p2) THEN <<p1, p2>> ELSE <<p2, p1>>

\* Lines 913-916; a variant that takes the smaller count for ground truth and
\* one whose raw is chosen on the wrong side, for comparison.
ByYellowCountFewer(p1, p2, a, b) ==
    <<IF a.yellow_count < b.yellow_count THEN p2 ELSE p1,
      IF a.yellow_count < b.yellow_count THEN p1 ELSE p2>>

ByYellowCountSlip(p1, p2, a, b) ==
    <<IF a.yellow_count > b.yellow_count THEN p1 ELSE p2,
      IF a.yellow_count > b.yellow_count THEN p1 ELSE p2>>

ByYellowCount(p1, p2, a, b) ==
    <<IF a.yellow_count > b.yellow_count THEN p2 ELSE p1,
      IF a.yellow_count > b.yellow_count THEN p1 ELSE p2>>

\* Lines 902-904; a variant that takes the yellow image for raw, for comparison.
ByYellowPresenceSwapped(p1, p2, a, b) ==
    <<IF a.has_yellow THEN p1 ELSE p2, IF a.has_yellow THEN p2 ELSE p1>>

ByYellowPresence(p1, p2, a, b) ==
    <<IF a.has_yellow THEN p2 ELSE p1, IF a.has_yellow THEN p1 ELSE p2>>

\* Lines 908-910
ByArea(p1, p2, a, b) ==
    <<IF a.area < b.area THEN p2 ELSE p1, IF a.area < b.area THEN p1 ELSE p2>>

\* Lines 920-922; a variant that always takes the first argument for ground truth.
ByNameHintFirst(p1, p2, a, b) == <<p2, p1>>

ByNameHint(p1, p2, a, b) ==
    <<IF a.name_gt_hint THEN p2 ELSE p1, IF a.name_gt_hint THEN p1 ELSE p2>>

\* Lines 891-926: <<raw, gt>>.
AssignRawGt(p1, p2, index) ==
    LET a == DictGet(index, p1)
        b == DictGet(index, p2)
        y1 == a.has_yellow
        y2 == b.has_yellow
    IN  IF y1 # y2
        THEN ByYellowPresence(p1, p2, a, b)
        ELSE IF a.area # b.area
        THEN ByArea(p1, p2, a, b)
        ELSE IF a.yellow_count # b.yellow_count
        THEN ByYellowCount(p1, p2, a, b)
        ELSE IF a.name_gt_hint # b.name_gt_hint
        THEN ByNameHint(p1, p2, a, b)
        ELSE FallbackOrder(p1, p2)

\* ---- the inputs the classifier is run on
ImageShapes == { <<450, 450>>, <<900, 900>>, <<1800, 1800>> }

YellowCounts == {0, 1, 2}

RoleImages == [shape : ImageShapes, yellow_count : YellowCounts, feat : {NoFeatures}]

InitRoles ==
    /\ \E p1 \in PathUniverse : \E p2 \in PathUniverse \ {p1} :
       \E img1 \in RoleImages : \E img2 \in RoleImages :
          /\ all_paths = <<p1, p2>>
          /\ idx = DictSet(DictSet(<<>>, p1, IndexEntry(p1, img1)), p2, IndexEntry(p2, img2))
          /\ read_log = <<img1, img2>>
    /\ ix = 2
    /\ cand_pairs = <<>>
    /\ greedy = NoGreedyPass
    /\ recos = <<>>
    /\ score_calls = <<>>
    /\ apc = "roles"
    /\ role_args = <<>>
    /\ roles = <<>>
    /\ roles_rev = <<>>
    /\ RemapUnused
    /\ ScoreUnused
    /\ RunUnused
    /\ GuiUnused

\* _assign_raw_gt on two keys of the index, in both argument orders.
ClassifyRoles ==
    /\ apc \in {"roles", "classified"}
    /\ \E i \in DOMAIN idx : \E j \in DOMAIN idx \ {i} :
          /\ role_args' = <<idx[i].key, idx[j].key>>
          /\ roles' = AssignRawGt(idx[i].key, idx[j].key, idx)
          /\ roles_rev' = AssignRawGt(idx[j].key, idx[i].key, idx)
    /\ apc' = "classified"
    /\ UNCHANGED <<all_paths, ix, idx, read_log, cand_pairs, greedy, recos, score_calls>>
    /\ UNCHANGED <<remapVars, scoreVars, runVars, guiVars>>

NextRoles == ClassifyRoles

SpecRoles == InitRoles /\ [][NextRoles]_vars

-----------------------------------------------------------------------------
(* main.py: the assigner, _make_recommendations                            *)

\* Largest pool of images.
MaxPool == 4

\* Line 938
MIN_INLIERS == 15

\* Line 971
MaxShortlist == 100

\* ---- the images of a pool: each shows some of two landmarks, the first
\* giving 15 keypoints and the second 8.
VisibleFeatures(S) ==
    LET l1 == FeatureSet([n |-> 15, first |-> 1, noise |-> 0, dup |-> FALSE, geom |-> "same"])
        l2 == FeatureSet([n |-> 8, first |-> 21, noise |-> 0, dup |-> FALSE, geom |-> "same"])
    IN  [kps |-> (IF 1 \in S THEN l1.kps ELSE <<>>) \o (IF 2 \in S THEN l2.kps ELSE <<>>),
         desc |-> (IF 1 \in S THEN l1.desc ELSE <<>>) \o (IF 2 \in S THEN l2.desc ELSE <<>>)]

PoolFeatures == { VisibleFeatures(S) : S \in SUBSET {1, 2} }

PoolImages ==
    [shape : { <<900, 900>> }, yellow_count : {0, 2}, feat : PoolFeatures] \cup {Unreadable}

\* Two orders in which the walk may list the files.
PathsAscending == <<PathGT, PathA, PathAB, PathB, PathGt, PathSeg>>

PathsWalkOrder == <<PathB, PathA, PathSeg, PathGT, PathGt, PathAB>>

PoolFamily ==
    { SubSeq(order, 1, n) : order \in {PathsAscending, PathsWalkOrder},
                            n \in 1..(IF MaxPool < 6 THEN MaxPool ELSE 6) }

\* _score_pair_orb on every two feature sets of the pool images, evaluated once.
ScoreTable ==
    [f1 \in PoolFeatures, f2 \in PoolFeatures |->
        ScorePairOrb(f1.desc, f1.kps, f2.desc, f2.kps)]

\* Line 952: sc for the paths at positions i and j of the index.
PairScore(index, i, j) ==
    ScoreTable[[kps |-> index[i].val.kps, desc |-> index[i].val.desc],
               [kps |-> index[j].val.kps, desc |-> index[j].val.desc]]

\* Lines 944-947: the index pairs in loop order; a variant that goes through
\* both orderings of every pair, for comparison.
RECURSIVE PairsFromBothOrders(_, _, _)
PairsFromBothOrders(i, j, n) ==
    IF i > n THEN <<>>
    ELSE IF j > n THEN PairsFromBothOrders(i + 1, 1, n)
    ELSE IF i = j THEN PairsFromBothOrders(i, j + 1, n)
    ELSE << <<i, j>> >> \o PairsFromBothOrders(i, j + 1, n)

RECURSIVE PairsFrom(_, _, _)
PairsFrom(i, j, n) ==
    IF i > n THEN <<>>
    ELSE IF j > n THEN PairsFrom(i + 1, i + 2, n)
    ELSE << <<i, j>> >> \o PairsFrom(i, j + 1, n)

\* Line 952: the arguments of the calls of _score_pair_orb, in order.
ScorerCalls(index) ==
    IF index = <<>> THEN <<>>
    ELSE LET all == PairsFrom(1, 2, Len(index))
         IN  [k \in DOMAIN all |-> <<index[all[k][1]].key, index[all[k][2]].key>>]

\* Line 953; a variant that keeps every pair, for comparison.
MeetsMinInliersAny(sc) == sc >= 0

MeetsMinInliers(sc) == sc >= MIN_INLIERS

\* Lines 944-955: the candidate pairs, in loop order.
CandidatePairs(index) ==
    LET all == PairsFrom(1, 2, Len(index))
        kept == SelectSeq(all, LAMBDA ij : MeetsMinInliers(PairScore(index, ij[1], ij[2])))
    IN  [k \in DOMAIN kept |->
            LET rg == AssignRawGt(index[kept[k][1]].key, index[kept[k][2]].key, index)
            IN  [score |-> PairScore(index, kept[k][1], kept[k][2]),
                 raw |-> rg[1], gt |-> rg[2]]]

\* Line 961 left out, for comparison.
SortByScoreKeepOrder(pairs) == pairs

\* Line 961: pairs.sort(key=score, reverse=True), a stable sort: an element
\* goes after those with a greater score and after the earlier ones with the
\* same score.
SortByScoreDesc(pairs) ==
    LET n == Len(pairs)
        rank(i) == 1 + Cardinality({ j \in 1..n :
                          \/ pairs[j].score > pairs[i].score
                          \/ (pairs[j].score = pairs[i].score /\ j < i) })
    IN  [k \in 1..n |-> pairs[CHOOSE i \in 1..n : rank(i) = k]]

\* Line 967; a variant that looks at the raw image only, for comparison.
ClaimedRawOnly(r, used) == r.raw \in used

Claimed(r, used) == r.raw \in used \/ r.gt \in used

\* Lines 966-970 without the break of lines 971-972, for comparison.
GreedyStepUncapped(st, r) ==
    IF Claimed(r, st.used) THEN st
    ELSE [used |-> st.used \cup {r.raw, r.gt},
          shortlist |-> Append(st.shortlist, r),
          stopped |-> FALSE]

\* Lines 966-972: one iteration of the greedy pass on r; stopped records
\* the break of line 972.
GreedyStep(st, r) ==
    IF st.stopped \/ Claimed(r, st.used) THEN st
    ELSE [used |-> st.used \cup {r.raw, r.gt},
          shortlist |-> Append(st.shortlist, r),
          stopped |-> Len(st.shortlist) + 1 >= MaxShortlist]

\* Lines 966-972: the iterations on pairs, in order.
RECURSIVE GreedyFrom(_, _)
GreedyFrom(pairs, st) ==
    IF pairs = <<>> THEN st.shortlist
    ELSE GreedyFrom(Tail(pairs), GreedyStep(st, pairs[1]))

\* Lines 964-972: the greedy pass.
GreedyAssign(pairs, used, shortlist) ==
    GreedyFrom(pairs, [used |-> used, shortlist |-> shortlist, stopped |-> FALSE])

\* Lines 960-974: the sort and the greedy pass on `pairs`.
RankAndAssign(pairs) == GreedyAssign(SortByScoreDesc(pairs), {}, <<>>)

\* Lines 928-974
MakeRecommendations(index) ==
    IF index = <<>> THEN <<>>
    ELSE RankAndAssign(CandidatePairs(index))

InitAssign ==
    /\ all_paths \in PoolFamily
    /\ ix = 0
    /\ idx = <<>>
    /\ read_log = <<>>
    /\ cand_pairs = <<>>
    /\ greedy = NoGreedyPass
    /\ recos = <<>>
    /\ score_calls = <<>>
    /\ apc = "indexing"
    /\ role_args = <<>>
    /\ roles = <<>>
    /\ roles_rev = <<>>
    /\ RemapUnused
    /\ ScoreUnused
    /\ RunUnused
    /\ GuiUnused

\* Lines 871-888: _build_index reads the next file of all_paths.
BuildIndexStep ==
    /\ apc = "indexing"
    /\ ix < Len(all_paths)
    /\ \E img \in PoolImages :
          /\ idx' = IF IsNone(img) THEN idx
                    ELSE DictSet(idx, all_paths[ix + 1], IndexEntry(all_paths[ix + 1], img))
          /\ read_log' = Append(read_log, img)
    /\ ix' = ix + 1
    /\ UNCHANGED <<all_paths, cand_pairs, greedy, recos, score_calls, apc, role_args,
                   roles, roles_rev>>
    /\ UNCHANGED <<remapVars, scoreVars, runVars, guiVars>>

\* Lines 1012-1014: recos = self._make_recommendations(idx), kept by
\* populate_reco_table.
FindRecommendations ==
    /\ apc = "indexing"
    /\ ix = Len(all_paths)
    /\ cand_pairs' = CandidatePairs(idx)
    /\ recos' = MakeRecommendations(idx)
    /\ score_calls' = ScorerCalls(idx)
    /\ apc' = "recommended"
    /\ UNCHANGED <<all_paths, ix, idx, read_log, greedy, role_args, roles, roles_rev>>
    /\ UNCHANGED <<remapVars, scoreVars, runVars, guiVars>>

NextAssign == BuildIndexStep \/ FindRecommendations

SpecAssign == InitAssign /\ [][NextAssign]_vars

-----------------------------------------------------------------------------
(* main.py: the sort and the greedy pass of _make_recommendations on lists   *)
(* of candidate pairs, short ones and ones as long as the cap                *)

\* Longest of the short candidate lists.
MaxCandidates == 3

\* The path of the k-th image of a large pool.
PoolPath(k) == <<k>>

\* The scores a candidate pair can have (line 953: at least MIN_INLIERS).
CandidateScores == {MIN_INLIERS, MIN_INLIERS + 8}

\* The pairs of four images, as the loops of lines 944-947 list them.
SmallPoolPairs == { <<i, j>> : i \in 1..4, j \in 1..4 } \ { ij \in (1..4) \X (1..4) : ij[1] >= ij[2] }

\* Short lists: different pairs of four images in loop order, with any scores.
ShortCandidateLists ==
    UNION { { [k \in 1..n |-> [score |-> sc[k], raw |-> PoolPath(ps[k][1]), gt |-> PoolPath(ps[k][2])]] :
                ps \in { q \in [1..n -> SmallPoolPairs] :
                            \A a \in 1..n : \A b \in 1..n :
                               a < b => (q[a][1] < q[b][1]
                                          \/ (q[a][1] = q[b][1] /\ q[a][2] < q[b][2])) },
                sc \in [1..n -> CandidateScores] } : n \in 0..MaxCandidates }

\* Long lists of n pairs.  "disjoint": pair k is of images 2k-1 and 2k;
\* "rising": the same with scores that grow along the list; "chained": pair
\* k is of images k and k+1, so that neighbours share an image.
LongCandidateList(n, shape) ==
    [k \in 1..n |->
        IF shape = "chained"
        THEN [score |-> MIN_INLIERS + (k % 3), raw |-> PoolPath(k), gt |-> PoolPath(k + 1)]
        ELSE [score |-> IF shape = "rising" THEN MIN_INLIERS + k ELSE MIN_INLIERS,
              raw |-> PoolPath(2 * k - 1), gt |-> PoolPath(2 * k)]]

LongCandidateLists ==
    { LongCandidateList(n, shape) :
        n \in (MaxShortlist - 1)..(MaxShortlist + 2),
        shape \in {"disjoint", "rising", "chained"} }

InitGreedy ==
    /\ cand_pairs \in ShortCandidateLists \cup LongCandidateLists
    /\ all_paths = <<>>
    /\ ix = 0
    /\ idx = <<>>
    /\ read_log = <<>>
    /\ greedy = NoGreedyPass
    /\ recos = <<>>
    /\ score_calls = <<>>
    /\ apc = "pairs"
    /\ role_args = <<>>
    /\ roles = <<>>
    /\ roles_rev = <<>>
    /\ RemapUnused
    /\ ScoreUnused
    /\ RunUnused
    /\ GuiUnused

\* Lines 961-965: the sort, and the empty used and shortlist.
SortPairs ==
    /\ apc = "pairs"
    /\ greedy' = [NoGreedyPass EXCEPT !.pairs = SortByScoreDesc(cand_pairs)]
    /\ apc' = "greedy"
    /\ UNCHANGED <<all_paths, ix, idx, read_log, cand_pairs, recos, score_calls,
                   role_args, roles, roles_rev>>
    /\ UNCHANGED <<remapVars, scoreVars, runVars, guiVars>>

\* Lines 966-972: one iteration of `for r in pairs`.
GreedyIteration ==
    /\ apc = "greedy"
    /\ greedy.pos <= Len(greedy.pairs)
    /\ ~greedy.st.stopped
    /\ greedy' = [greedy EXCEPT !.st = GreedyStep(greedy.st, greedy.pairs[greedy.pos]),
                                !.pos = greedy.pos + 1]
    /\ UNCHANGED <<all_paths, ix, idx, read_log, cand_pairs, recos, score_calls, apc,
                   role_args, roles, roles_rev>>
    /\ UNCHANGED <<remapVars, scoreVars, runVars, guiVars>>

\* Line 974, after the loop has ended or was left by the break.
ReturnShortlist ==
    /\ apc = "greedy"
    /\ greedy.pos > Len(greedy.pairs) \/ greedy.st.stopped
    /\ recos' = greedy.st.shortlist
    /\ apc' = "recommended"
    /\ UNCHANGED <<all_paths, ix, idx, read_log, cand_pairs, greedy, score_calls,
                   role_args, roles, roles_rev>>
    /\ UNCHANGED <<remapVars, scoreVars, runVars, guiVars>>

NextGreedy == SortPairs \/ GreedyIteration \/ ReturnShortlist

SpecGreedy == InitGreedy /\ [][NextGreedy]_vars

-----------------------------------------------------------------------------
(* main.py: the viewers, the role selections and save_match (SpecGui), and  *)
(* the same with the recommendation table (SpecReco)                        *)

\* Most viewers the window ever opens (viewer_counter).
MaxViewers == 3

\* Most times save_match gets as far as copying files.
MaxSaves == 1

\* The study folders of the selected patient and the PNG files of each, as
\* load_images lists them: sorted.
StudyFolders == {"s1", "s2"}

StudyImages(folder) ==
    IF folder = "s1" THEN <<"a.png", "b.png">> ELSE <<"c.png">>

Roles == {"raw", "ground_truth"}

Organs == {"Liver"}

\* How the file operations of one save_match call end.
SaveOutcomes == {"ok", "makedirs_fails", "copy_raw_fails", "copy_gt_fails"}

Reco(score, raw, gt) == [score |-> score, raw |-> raw, gt |-> gt]

\* Lists populate_reco_table is given by find_recommendations for the three
\* images: one pair (no image is in two pairs), its score MIN_INLIERS or more.
\* The first pairs images of the same study folder, the others images of
\* different folders.
GuiRecoLists ==
    { << Reco(MIN_INLIERS, <<"s1", "a.png">>, <<"s1", "b.png">>) >>,
      << Reco(MIN_INLIERS, <<"s1", "b.png">>, <<"s2", "c.png">>) >>,
      << Reco(MIN_INLIERS, <<"s2", "c.png">>, <<"s1", "a.png">>) >> }

\* ImageViewer.__init__, lines 17-26: the first image is shown, no role chosen.
NewViewer(folder) ==
    [study_folder |-> folder, images |-> StudyImages(folder),
     current_index |-> 0, selection_type |-> ""]

\* self.viewers[viewer_id] = viewer
WithViewer(vs, viewer_id, viewer) ==
    [id \in DOMAIN vs \cup {viewer_id} |-> IF id = viewer_id THEN viewer ELSE vs[id]]

\* del self.main_app.viewers[self.viewer_id]
WithoutViewer(vs, viewer_id) == [id \in DOMAIN vs \ {viewer_id} |-> vs[id]]

\* Lines 174-181: clear_selection; only_if_value is <<>> for None.
ClearSelection(viewer, only_if_value) ==
    IF only_if_value = <<>> \/ viewer.selection_type = only_if_value[1]
    THEN [viewer EXCEPT !.selection_type = ""]
    ELSE viewer

\* Lines 183-189: get_current_image_info, as <<path>> or <<>> for (None, None).
CurrentImageInfo(viewer) ==
    IF viewer.images # <<>>
    THEN << <<viewer.study_folder, viewer.images[viewer.current_index + 1]>> >>
    ELSE <<>>

\* Lines 192-201: jump_to_file.
JumpToFile(viewer, filename) ==
    IF \E k \in DOMAIN viewer.images : viewer.images[k] = filename
    THEN [viewer EXCEPT !.current_index =
             (CHOOSE k \in DOMAIN viewer.images : viewer.images[k] = filename) - 1]
    ELSE viewer

\* update_selection without its step 2, for comparison.
UpdateSelectionKeepOther(st, viewer_id, selection_type) ==
    LET cs == st.current_selections
        old == cs[selection_type]
        vs == IF old # <<>> /\ old[1] \in DOMAIN st.viewers /\ old[1] # viewer_id
              THEN [st.viewers EXCEPT ![old[1]] = ClearSelection(@, <<selection_type>>)]
              ELSE st.viewers
    IN  [st EXCEPT !.viewers = vs,
                   !.current_selections = [cs EXCEPT ![selection_type] = <<viewer_id>>]]

\* Lines 556-576: update_selection on st = [viewers, current_selections, ...].
UpdateSelection(st, viewer_id, selection_type) ==
    LET cs == st.current_selections
        old == cs[selection_type]
        \* 1) evict the previous holder of this role, if it still shows it
        vs == IF old # <<>> /\ old[1] \in DOMAIN st.viewers /\ old[1] # viewer_id
              THEN [st.viewers EXCEPT ![old[1]] = ClearSelection(@, <<selection_type>>)]
              ELSE st.viewers
        \* 2) drop this viewer's mapping to the other role
        other_type == IF selection_type = "raw" THEN "ground_truth" ELSE "raw"
        dropped == IF cs[other_type] = <<viewer_id>>
                   THEN [cs EXCEPT ![other_type] = <<>>]
                   ELSE cs
        \* 3) record the new holder
    IN  [st EXCEPT !.viewers = vs,
                   !.current_selections = [dropped EXCEPT ![selection_type] = <<viewer_id>>]]

\* Lines 167-171: on_selection_change.
OnSelectionChange(st, viewer_id) ==
    LET val == st.viewers[viewer_id].selection_type
    IN  IF val \in Roles THEN UpdateSelection(st, viewer_id, val) ELSE st

\* Lines 1018-1028: _ensure_viewer_for_path; values() is in the order of the
\* viewer ids. Gives the state and the viewer's id.
EnsureViewerForPath(st, study_folder) ==
    LET open == { id \in DOMAIN st.viewers : st.viewers[id].study_folder = study_folder }
    IN  IF open # {}
        THEN [st |-> st, id |-> Min(open)]
        ELSE LET viewer_id == st.viewer_counter + 1
             IN  [st |-> [st EXCEPT !.viewer_counter = viewer_id,
                                    !.viewers = WithViewer(@, viewer_id, NewViewer(study_folder))],
                  id |-> viewer_id]

\* Lines 1030-1046: _load_pair_into_viewers with preselect=True.
LoadPairIntoViewers(st, raw_full, gt_full) ==
    LET r == EnsureViewerForPath(st, raw_full[1])
        g == EnsureViewerForPath(r.st, gt_full[1])
        raw_viewer == r.id
        gt_viewer == g.id
        jumped_raw == [g.st EXCEPT !.viewers[raw_viewer] = JumpToFile(@, raw_full[2])]
        jumped_gt == [jumped_raw EXCEPT !.viewers[gt_viewer] = JumpToFile(@, gt_full[2])]
        set_raw == [jumped_gt EXCEPT !.viewers[raw_viewer].selection_type = "raw"]
        set_gt == [set_raw EXCEPT !.viewers[gt_viewer].selection_type = "ground_truth"]
    IN  OnSelectionChange(OnSelectionChange(set_gt, raw_viewer), gt_viewer)

\* The window's viewers, selections and counter as one record.
GuiState ==
    [viewers |-> viewers, current_selections |-> current_selections,
     viewer_counter |-> viewer_counter]

PureRawCount == Cardinality({ f \in out_files : f[2] = "pure_raw" })

\* Lines 579-695: save_match in the given mode, its file operations ending as
\* outcome says. `raised` tells that an error left save_match (os.makedirs is
\* outside the try blocks).
SaveMatch(mode, outcome) ==
    LET cs == current_selections
        same == [viewers |-> viewers, current_selections |-> cs,
                 id_counter |-> id_counter, out_files |-> out_files,
                 processed_files |-> processed_files, raised |-> FALSE]
        cleared == [v \in DOMAIN viewers |-> ClearSelection(viewers[v], <<>>)]
        none == [raw |-> <<>>, ground_truth |-> <<>>]
    IN  IF mode = "has_gt" /\ (cs.raw = <<>> \/ cs.ground_truth = <<>>) THEN same
        ELSE IF mode = "no_gt" /\ cs.raw = <<>> THEN same
        ELSE IF organ_var = "" THEN same
        ELSE LET raw_info == CurrentImageInfo(viewers[cs.raw[1]])
             IN  IF raw_info = <<>> THEN same
                 ELSE IF mode = "has_gt"
                 THEN LET gt_info == CurrentImageInfo(viewers[cs.ground_truth[1]])
                          id == id_counter + 1
                      IN  IF gt_info = <<>> THEN same
                          ELSE IF outcome = "makedirs_fails"
                          THEN [same EXCEPT !.raised = TRUE]
                          ELSE IF outcome = "copy_raw_fails"
                          THEN [same EXCEPT !.id_counter = id]
                          ELSE IF outcome = "copy_gt_fails"
                          THEN [same EXCEPT !.id_counter = id,
                                            !.out_files = @ \cup {<<id, "raw">>}]
                          ELSE [viewers |-> cleared, current_selections |-> none,
                                id_counter |-> id,
                                out_files |-> out_files
                                                \cup {<<id, "raw">>, <<id, "ground_truth">>},
                                processed_files |-> processed_files
                                                      \cup {raw_info[1], gt_info[1]},
                                raised |-> FALSE]
                 ELSE LET next_id == PureRawCount + 1
                      IN  IF outcome = "makedirs_fails"
                          THEN [same EXCEPT !.raised = TRUE]
                          ELSE IF outcome = "copy_raw_fails"
                          THEN same
                          ELSE [viewers |-> cleared, current_selections |-> none,
                                id_counter |-> id_counter,
                                out_files |-> out_files \cup {<<next_id, "pure_raw">>},
                                processed_files |-> processed_files \cup {raw_info[1]},
                                raised |-> FALSE]

\* save_match stays within the number of saves of the model.
WithinSaves == id_counter + PureRawCount < MaxSaves

\* del self._recommendations[idx], idx counted from 0
DelAt(list, i) == [k \in 1..(Len(list) - 1) |-> IF k <= i THEN list[k] ELSE list[k + 1]]

\* After load_studies (lines 497-502): one viewer per study folder, in the
\* order of the folders; the table shows the given recommendations.
InitWindow(recos_shown) ==
    /\ viewers = <<NewViewer("s1"), NewViewer("s2")>>
    /\ current_selections = [raw |-> <<>>, ground_truth |-> <<>>]
    /\ viewer_counter = 2
    /\ recommendations = recos_shown
    /\ reco_selection = <<>>
    /\ mode_var = "has_gt"
    /\ organ_var = ""
    /\ id_counter = 0
    /\ out_files = {}
    /\ processed_files = {}
    /\ RemapUnused
    /\ ScoreUnused
    /\ MainUnused
    /\ RunUnused

\* Line 462: find_recommendations runs 50 ms after the studies are loaded;
\* until then the table is empty.
InitGui == InitWindow(<<>>)

\* The window once find_recommendations has filled the table.
InitReco == \E recos_shown \in GuiRecoLists : InitWindow(recos_shown)

\* Lines 540-554: open_viewer for a study chosen in the combobox.
OpenViewer ==
    /\ viewer_counter < MaxViewers
    /\ \E study_path \in StudyFolders :
          /\ viewer_counter' = viewer_counter + 1
          /\ viewers' = WithViewer(viewers, viewer_counter + 1, NewViewer(study_path))
    /\ UNCHANGED <<current_selections, recommendations, reco_selection, mode_var,
                   organ_var, id_counter, out_files, processed_files>>
    /\ UNCHANGED <<remapVars, scoreVars, mainVars, runVars>>

\* A click on a viewer's Raw or Ground Truth radio button: the button sets
\* selection_type, then calls on_selection_change (lines 42-48, 167-171).
SelectRole ==
    /\ \E viewer_id \in DOMAIN viewers, val \in Roles :
          LET clicked == [GuiState EXCEPT !.viewers[viewer_id].selection_type = val]
              st == OnSelectionChange(clicked, viewer_id)
          IN  /\ viewers' = st.viewers
              /\ current_selections' = st.current_selections
    /\ UNCHANGED <<viewer_counter, recommendations, reco_selection, mode_var,
                   organ_var, id_counter, out_files, processed_files>>
    /\ UNCHANGED <<remapVars, scoreVars, mainVars, runVars>>

\* Lines 147-165: close_viewer.
CloseViewer ==
    /\ \E viewer_id \in DOMAIN viewers :
          /\ current_selections' =
                [role \in Roles |-> IF current_selections[role] = <<viewer_id>>
                                    THEN <<>> ELSE current_selections[role]]
          /\ viewers' = WithoutViewer(viewers, viewer_id)
    /\ UNCHANGED <<viewer_counter, recommendations, reco_selection, mode_var,
                   organ_var, id_counter, out_files, processed_files>>
    /\ UNCHANGED <<remapVars, scoreVars, mainVars, runVars>>

\* Lines 135-145: prev_image and next_image.
Navigate ==
    /\ \E viewer_id \in DOMAIN viewers, step \in {-1, 1} :
          LET target == viewers[viewer_id].current_index + step
          IN  /\ target >= 0
              /\ target <= Len(viewers[viewer_id].images) - 1
              /\ viewers' = [viewers EXCEPT ![viewer_id].current_index = target]
    /\ UNCHANGED <<current_selections, viewer_counter, recommendations, reco_selection,
                   mode_var, organ_var, id_counter, out_files, processed_files>>
    /\ UNCHANGED <<remapVars, scoreVars, mainVars, runVars>>

\* The Has GT / No GT radio buttons and the organ combobox (lines 288-296).
ChooseModeAndOrgan ==
    /\ \E mode \in {"has_gt", "no_gt"}, organ \in Organs \cup {""} :
          /\ mode_var' = mode
          /\ organ_var' = organ
    /\ UNCHANGED <<viewers, current_selections, viewer_counter, recommendations,
                   reco_selection, id_counter, out_files, processed_files>>
    /\ UNCHANGED <<remapVars, scoreVars, mainVars, runVars>>

\* The Save button: save_match (lines 579-695).
SaveButton ==
    /\ WithinSaves
    /\ \E outcome \in SaveOutcomes :
          LET s == SaveMatch(mode_var, outcome)
          IN  /\ viewers' = s.viewers
              /\ current_selections' = s.current_selections
              /\ id_counter' = s.id_counter
              /\ out_files' = s.out_files
              /\ processed_files' = s.processed_files
    /\ UNCHANGED <<viewer_counter, recommendations, reco_selection, mode_var, organ_var>>
    /\ UNCHANGED <<remapVars, scoreVars, mainVars, runVars>>

\* A click on row `row` of the table: <<TreeviewSelect>> calls on_reco_selected
\* (lines 365, 1064-1076).
OnRecoSelected(row) ==
    /\ 0 <= row /\ row < Len(recommendations)
    /\ LET rec == recommendations[row + 1]
           st == LoadPairIntoViewers(GuiState, rec.raw, rec.gt)
       IN  /\ st.viewer_counter <= MaxViewers
           /\ viewers' = st.viewers
           /\ current_selections' = st.current_selections
           /\ viewer_counter' = st.viewer_counter
    /\ reco_selection' = <<row>>
    /\ mode_var' = "has_gt"
    /\ UNCHANGED <<recommendations, organ_var, id_counter, out_files, processed_files>>
    /\ UNCHANGED <<remapVars, scoreVars, mainVars, runVars>>

SelectReco == \E row \in 0..(Len(recommendations) - 1) : OnRecoSelected(row)

\* Lines 1079-1106: approve_selected_reco, with the save_match and the
\* reject_selected_reco it calls.
ApproveSelectedReco ==
    /\ reco_selection # <<>>
    /\ LET row == reco_selection[1]
       IN  IF organ_var = ""
           THEN UNCHANGED guiVars
           ELSE IF current_selections.raw = <<>> \/ current_selections.ground_truth = <<>>
           THEN LET rec == recommendations[row + 1]
                    st == LoadPairIntoViewers(GuiState, rec.raw, rec.gt)
                IN  /\ st.viewer_counter <= MaxViewers
                    /\ viewers' = st.viewers
                    /\ current_selections' = st.current_selections
                    /\ viewer_counter' = st.viewer_counter
                    /\ UNCHANGED <<recommendations, reco_selection, mode_var, organ_var,
                                   id_counter, out_files, processed_files>>
           ELSE /\ WithinSaves
                /\ mode_var' = "has_gt"
                /\ \E outcome \in SaveOutcomes :
                      LET s == SaveMatch("has_gt", outcome)
                      IN  /\ viewers' = s.viewers
                          /\ current_selections' = s.current_selections
                          /\ id_counter' = s.id_counter
                          /\ out_files' = s.out_files
                          /\ processed_files' = s.processed_files
                          /\ IF s.raised
                             THEN UNCHANGED <<recommendations, reco_selection>>
                             ELSE /\ recommendations' = DelAt(recommendations, row)
                                  /\ reco_selection' = <<>>
                /\ UNCHANGED <<viewer_counter, organ_var>>
    /\ UNCHANGED <<remapVars, scoreVars, mainVars, runVars>>

\* Lines 1109-1116: reject_selected_reco; populate_reco_table rebuilds the
\* rows, which leaves none selected.
RejectSelectedReco ==
    /\ reco_selection # <<>>
    /\ recommendations' = DelAt(recommendations, reco_selection[1])
    /\ reco_selection' = <<>>
    /\ UNCHANGED <<viewers, current_selections, viewer_counter, mode_var, organ_var,
                   id_counter, out_files, processed_files>>
    /\ UNCHANGED <<remapVars, scoreVars, mainVars, runVars>>

\* The viewers, the role selections and the Save button.
NextGui ==
    OpenViewer \/ SelectRole \/ CloseViewer \/ Navigate \/ ChooseModeAndOrgan
        \/ SaveButton

SpecGui == InitGui /\ [][NextGui]_vars

\* The same with the recommendation table.
NextReco ==
    OpenViewer \/ SelectRole \/ CloseViewer \/ Navigate \/ ChooseModeAndOrgan
        \/ SaveButton \/ SelectReco \/ ApproveSelectedReco \/ RejectSelectedReco

SpecReco == InitReco /\ [][NextReco]_vars

-----------------------------------------------------------------------------
(* Properties of the remapper *)

\* The originals that were hashed and inserted, in order.
IndexedOriginals == Range(indexed_log)

PositionInLog(p) == CHOOSE i \in DOMAIN indexed_log : indexed_log[i] = p

\* No original hashed after p has p's fingerprint.
LastWithFingerprint(p) ==
    \A i \in DOMAIN indexed_log :
        i > PositionInLog(p) => PHash(content[indexed_log[i]]) # PHash(content[p])

\* e is the index entry of original p: p's base name and p's three files.
EntryIsOf(e, p) ==
    LET base == BaseName(p[2])
    IN  /\ e.original_path = p
        /\ e.base_name = base
        /\ e.triplet.png = p
        /\ e.triplet.json = JsonPath(p[1], base)
        /\ e.triplet.dicom \in {AnonDicomPath(p[1], base), AltDicomPath(p[1], base)}
        /\ \A k \in DOMAIN e.triplet : e.triplet[k] \in files

\* C2 as stated: resolving an unmodified copy of the image of any original that
\* was complete and hashed returns that original's triplet and base name, also
\* when several hashed originals have the same fingerprint.
C2_RoundTripEveryOriginal ==
    pc = "resolved" =>
        \A p \in IndexedOriginals :
            query = content[p] => match # <<>> /\ EntryIsOf(match[1], p)

\* C2 amended: resolving an unmodified copy of the image of an original that
\* was complete and hashed returns that original's triplet and base name
\* provided no original hashed after it has the same fingerprint (of several
\* originals with one fingerprint the resolver returns the last one hashed).
C2_RoundTripLastWriter ==
    pc = "resolved" =>
        \A p \in IndexedOriginals :
            (query = content[p] /\ LastWithFingerprint(p))
                => match # <<>> /\ EntryIsOf(match[1], p)

\* C2 witness: two hashed originals share a fingerprint and a copy of the later
\* one has been resolved to it.
C2_Witness ==
    /\ pc = "resolved"
    /\ \E p \in IndexedOriginals : \E p2 \in IndexedOriginals :
          /\ p # p2
          /\ PHash(content[p]) = PHash(content[p2])
          /\ LastWithFingerprint(p)
          /\ query = content[p]
          /\ match # <<>>
          /\ EntryIsOf(match[1], p)

\* C3: a derivative whose pixel content is the pixel content of no indexed
\* original resolves to None.
C3_ForeignPixelsUnmatched ==
    ( /\ pc = "resolved"
      /\ Decodable(query)
      /\ \A p \in IndexedOriginals : PixelContent(content[p]) # PixelContent(query) )
        => match = <<>>

\* C4: when the derivative's fingerprint is not a key of the index the resolver
\* answers None at once, without examining any index entry.
C4_MissMeansNoScan ==
    ( /\ pc = "resolved"
      /\ Decodable(query)
      /\ ~DictHas(hash_index, PHash(query)) )
        => (candidates_checked = 0 /\ match = <<>>)

-----------------------------------------------------------------------------
(* Properties of the pairwise scorer *)

\* The number of query descriptors whose nearest train descriptor is closer
\* than 0.75 times the second nearest, counted from the distances alone.
Survivors(qry, train) ==
    LET Dist(q) == [t \in DOMAIN train.desc |-> Hamming(qry.desc[q], train.desc[t])]
        Nearest(q) == Min(Range(Dist(q)))
        Second(q) ==
            IF Cardinality({ t \in DOMAIN train.desc : Dist(q)[t] = Nearest(q) }) > 1
            THEN Nearest(q)
            ELSE Min(Range(Dist(q)) \ {Nearest(q)})
    IN  IF Len(train.desc) < 2 THEN 0
        ELSE Cardinality({ q \in DOMAIN qry.desc : 4 * Nearest(q) < 3 * Second(q) })

\* C7: the score of two feature sets is the same in both argument orders.
C7_ScoreSymmetric ==
    spc = "scored" => scoreAB.score = scoreBA.score

\* C8: a call in which fewer than 8 matches survive the ratio test returns 0
\* and does not call findHomography.
C8_FewSurvivorsNoFit ==
    spc = "scored" =>
        /\ Survivors(featA, featB) < 8 => (scoreAB.score = 0 /\ ~scoreAB.fitted)
        /\ Survivors(featB, featA) < 8 => (scoreBA.score = 0 /\ ~scoreBA.fitted)

\* C8 witness: both images have at least 8 descriptors, between 1 and 7
\* matches survive, and the call returned 0 without fitting.
C8_Witness ==
    /\ spc = "scored"
    /\ Len(featA.desc) >= 8
    /\ Len(featB.desc) >= 8
    /\ Survivors(featA, featB) \in 1..7
    /\ scoreAB.score = 0
    /\ ~scoreAB.fitted

-----------------------------------------------------------------------------
(* Properties of the role classifier *)

Entry(path) == DictGet(idx, path)

\* The two images agree on every metadata value the cascade reads.
MetadataTie(p1, p2) ==
    /\ Entry(p1).has_yellow = Entry(p2).has_yellow
    /\ Entry(p1).area = Entry(p2).area
    /\ Entry(p1).yellow_count = Entry(p2).yellow_count
    /\ Entry(p1).name_gt_hint = Entry(p2).name_gt_hint

\* s1 sorts before s2: at the first position where they differ s1 has the
\* smaller character, or s1 is a proper prefix of s2.
SortsBefore(s1, s2) ==
    \E k \in 1..(Len(s2)) :
        /\ \A i \in 1..(k - 1) : i <= Len(s1) /\ s1[i] = s2[i]
        /\ \/ k = Len(s1) + 1
           \/ k <= Len(s1) /\ s1[k] < s2[k]

\* C5: the classifier returns two different paths, both among its two arguments.
C5_RolesTotal ==
    apc = "classified" =>
        /\ Len(roles) = 2
        /\ roles[1] \in {role_args[1], role_args[2]}
        /\ roles[2] \in {role_args[1], role_args[2]}
        /\ roles[1] # roles[2]

\* C5 witness: the classifier has run on two images that differ only in their
\* yellow count, and has named the first argument ground truth.
C5_Witness ==
    /\ apc = "classified"
    /\ Entry(role_args[1]).area = Entry(role_args[2]).area
    /\ Entry(role_args[1]).yellow_count > Entry(role_args[2]).yellow_count
    /\ Entry(role_args[2]).has_yellow
    /\ roles = <<role_args[2], role_args[1]>>

-----------------------------------------------------------------------------
(* Properties of the assigner *)

PathsOf(r) == {r.raw, r.gt}

\* The score the assigner computed for the images at positions i < j of the pool.
PoolScore(i, j) == PairScore(idx, i, j)

PoolPairs == { ij \in (DOMAIN idx) \X (DOMAIN idx) : ij[1] < ij[2] }

\* C1: no path is in two Correspondences of the returned list.
C1_ConflictFree ==
    apc = "recommended" =>
        \A i \in DOMAIN recos : \A j \in DOMAIN recos :
            i # j => PathsOf(recos[i]) \cap PathsOf(recos[j]) = {}

\* C1 witness: two Correspondences were returned although a candidate pair
\* shares an image with one of them.
C1_Witness ==
    /\ apc = "recommended"
    /\ Len(recos) = 2
    /\ \E ij \in PoolPairs :
          /\ PoolScore(ij[1], ij[2]) >= 15
          /\ \A k \in DOMAIN recos : PathsOf(recos[k]) # {idx[ij[1]].key, idx[ij[2]].key}

\* C10: in a pool of 4 images where one pair scores at least 15 and every
\* other pair scores 0, the list is that one pair.
C10_SingleMatchOfFour ==
    (apc = "recommended" /\ Len(idx) = 4) =>
        \A ij \in PoolPairs :
            ( /\ PoolScore(ij[1], ij[2]) >= 15
              /\ \A uv \in PoolPairs \ {ij} : PoolScore(uv[1], uv[2]) = 0 )
            => /\ Len(recos) = 1
               /\ PathsOf(recos[1]) = {idx[ij[1]].key, idx[ij[2]].key}

\* C10 witness: such a pool, with the first two images matching, has been
\* assigned.
C10_Witness ==
    /\ apc = "recommended"
    /\ Len(idx) = 4
    /\ PoolScore(1, 2) >= 15
    /\ \A uv \in PoolPairs \ {<<1, 2>>} : PoolScore(uv[1], uv[2]) = 0
    /\ Len(recos) = 1
    /\ PathsOf(recos[1]) = {idx[1].key, idx[2].key}

-----------------------------------------------------------------------------
(* Properties of run() and the batch *)

\* process_filtered_images has returned for root r.
RootFinished(r) == pc \in {"batch", "done"} /\ ri > r

PngsUnder(r) == { i \in DOMAIN roots[r].walk : IsPngName(roots[r].walk[i].name) }

\* The derivative at position i of root r resolves to an original that is in
\* used_files and has an output folder named by that original's base name.
IsRemapped(r, i) ==
    LET f == roots[r].walk[i]
        m == FindMatchingOriginal(f.img).result
    IN  /\ m # <<>>
        /\ m[1].original_path \in used_files
        /\ OutputDir(roots[r].name, f, m[1].base_name) \in outputs

IsUnmatched(r, i) ==
    FilteredImagePath(roots[r].name, roots[r].walk[i]) \in Range(unmatched_files)

\* C11: once process_filtered_images has returned for a root, every PNG under
\* that root is remapped or unmatched, and not both.
C11_BatchPartition ==
    \A r \in DOMAIN roots :
        RootFinished(r) =>
            \A i \in PngsUnder(r) : IsRemapped(r, i) # IsUnmatched(r, i)

\* C11 witness: a finished root with one remapped and one unmatched PNG.
C11_Witness ==
    /\ pc = "done"
    /\ \E i \in PngsUnder(1) : IsRemapped(1, i) /\ ~IsUnmatched(1, i)
    /\ \E i \in PngsUnder(1) : IsUnmatched(1, i) /\ ~IsRemapped(1, i)

\* The originals some derivative of the batch resolved to.
ClaimedOriginals ==
    { walk_log[i].match[1].original_path :
        i \in { j \in DOMAIN walk_log : walk_log[j].match # <<>> } }

\* C12: at the end of run() the unused-originals report is exactly the
\* originals that were complete and hashed during indexing and that no
\* derivative resolved to, an original overwritten in the index included.
C12_UnusedReportExact ==
    pc = "done" => unused_files = << Range(indexed_log) \ ClaimedOriginals >>

\* The derivative PNGs the batch has handled so far.
HandledPaths == { walk_log[i].path : i \in DOMAIN walk_log }

\* The derivative PNGs of the roots that exist.
DerivativePngs ==
    UNION { { FilteredImagePath(roots[r].name, roots[r].walk[i]) : i \in PngsUnder(r) } :
              r \in { q \in DOMAIN roots : roots[q].exists } }

\* C13: an error raised while a derivative is handled (opening it, creating
\* its output directory, copying a triplet file) never ends the batch: run()
\* is not left by an exception while derivatives remain to be handled.
C13_PerFileErrorsSkipped ==
    (pc = "aborted" /\ walk_log # <<>>) => DerivativePngs \subseteq HandledPaths

\* A required root does not exist: the mapping file or a derivative root.
ConfigurationError == ~mapping_exists \/ \E r \in DOMAIN roots : ~roots[r].exists

\* No original has been looked at and no derivative has been handled.
NoPerFileWork ==
    /\ fi = 1 /\ pi = 0
    /\ hash_index = <<>> /\ indexed_log = <<>>
    /\ walk_log = <<>> /\ unmatched_files = <<>> /\ used_files = {}

\* C14: with a missing mapping file or a missing derivative root, run() ends
\* in a hard failure and no per-file work (hashing, matching, copying) is
\* ever done.
C14_ConfigErrorAbortsFirst ==
    ConfigurationError => (pc \in {"load", "aborted"} /\ NoPerFileWork)

\* The originals of the mapping that build_hash_index can hash: the folder
\* and the three files of the triplet exist and the image decodes.
HashableOriginals ==
    { p \in ManifestPngs(json_data) :
        /\ p[1] \in folders
        /\ Exists(p)
        /\ MissingFiles(TripletOf(p[1], p[2])) = {}
        /\ Decodable(content[p]) }

\* p comes before q in the order build_hash_index goes through the mapping.
ProcessedBefore(p, q) ==
    \E f \in DOMAIN json_data, g \in DOMAIN json_data :
    \E i \in DOMAIN json_data[f].files, j \in DOMAIN json_data[g].files :
        /\ p = JoinPath(NormalizeFolder(json_data[f].folder), json_data[f].files[i])
        /\ q = JoinPath(NormalizeFolder(json_data[g].folder), json_data[g].files[j])
        /\ (f < g \/ (f = g /\ i < j))

EntriesFor(h) == { i \in DOMAIN hash_index : hash_index[i].key = h }

\* C15: when build_hash_index has returned, if two complete originals have the same
\* fingerprint the index holds exactly one entry for it, that entry is not
\* the earlier original's but the one of the original processed last, and
\* every original that can be hashed, those after the collision included,
\* has been indexed.
C15_CollisionLastWriteWins ==
    pc = "built" =>
        /\ \A p \in HashableOriginals : \A q \in HashableOriginals :
              (ProcessedBefore(p, q) /\ PHash(content[p]) = PHash(content[q]))
                 => /\ Cardinality(EntriesFor(PHash(content[q]))) = 1
                    /\ DictGet(hash_index, PHash(content[q])).original_path # p
                    /\ (~\E r \in HashableOriginals :
                            ProcessedBefore(q, r) /\ PHash(content[r]) = PHash(content[q]))
                         => EntryIsOf(DictGet(hash_index, PHash(content[q])), q)
        /\ \A r \in HashableOriginals : EntriesFor(PHash(content[r])) # {}

\* C15 witness: the first two originals collided and the third, with another
\* fingerprint, was indexed after them.
C15_Witness ==
    /\ pc = "built"
    /\ Cardinality(HashableOriginals) = 3
    /\ \E p \in HashableOriginals, q \in HashableOriginals, r \in HashableOriginals :
          /\ ProcessedBefore(p, q) /\ ProcessedBefore(q, r)
          /\ PHash(content[p]) = PHash(content[q])
          /\ content[p] # content[q]
          /\ PHash(content[r]) # PHash(content[q])
          /\ Len(hash_index) = 2
          /\ EntryIsOf(DictGet(hash_index, PHash(content[q])), q)
          /\ EntryIsOf(DictGet(hash_index, PHash(content[r])), r)

-----------------------------------------------------------------------------
(* Properties of _build_index with the assigner *)

\* The paths of the pool whose file cv2.imread could not decode, and the others.
UnreadablePositions == { k \in DOMAIN read_log : read_log[k].shape = <<0, 0>> }

ReadablePositions == DOMAIN read_log \ UnreadablePositions

RecommendedPaths == UNION { PathsOf(recos[k]) : k \in DOMAIN recos }

\* The score of the images read at positions i and j of the pool.
ReadScore(i, j) == ScoreTable[read_log[i].feat, read_log[j].feat]

\* C16: an image of the pool that fails to decode is not in the index and in
\* no returned Correspondence, while every other image is indexed with what
\* was read from it and every pair of them that scores at least MIN_INLIERS
\* has one of its images in the returned list.
C16_DecodeFailureExcluded ==
    apc = "recommended" =>
        /\ \A k \in UnreadablePositions :
              /\ ~DictHas(idx, all_paths[k])
              /\ all_paths[k] \notin RecommendedPaths
        /\ \A k \in ReadablePositions :
              /\ DictHas(idx, all_paths[k])
              /\ DictGet(idx, all_paths[k]).desc = read_log[k].feat.desc
        /\ \A i \in ReadablePositions : \A j \in ReadablePositions :
              (i < j /\ ReadScore(i, j) >= MIN_INLIERS)
                 => {all_paths[i], all_paths[j]} \cap RecommendedPaths # {}

\* C16 witness: the second image of a pool of four failed to decode and the
\* third and fourth, which match, were returned as a Correspondence.
C16_Witness ==
    /\ apc = "recommended"
    /\ Len(all_paths) = 4
    /\ UnreadablePositions = {2}
    /\ ReadScore(3, 4) >= MIN_INLIERS
    /\ \E k \in DOMAIN recos : PathsOf(recos[k]) = {all_paths[3], all_paths[4]}

-----------------------------------------------------------------------------
(* Properties of the role cascade *)

\* What was read from the file at a path of the pool.
ImageOf(path) == read_log[CHOOSE k \in DOMAIN all_paths : all_paths[k] = path]

ShowsYellow(path) == ImageOf(path).yellow_count > 0

\* The classifier has run on p1 and p2, in both argument orders.
Classified(p1, p2) == apc = "classified" /\ role_args = <<p1, p2>>

\* Both argument orders named gt ground truth and the other path raw.
RolesAre(raw, gt) == roles = <<raw, gt>> /\ roles_rev = <<raw, gt>>

\* C17: if exactly one of the two images contains yellow pixels, it is the
\* ground truth and the other is raw, whatever the areas, yellow counts,
\* filename hints and argument order.
C17_YellowPresenceDecides ==
    \A p1 \in Range(all_paths) : \A p2 \in Range(all_paths) :
        (Classified(p1, p2) /\ ShowsYellow(p1) /\ ~ShowsYellow(p2)) => RolesAre(p2, p1)

\* C17 witness: the yellow image is the larger one, has no hint in its path
\* and sorts first, and it was named ground truth.
C17_Witness ==
    /\ apc = "classified"
    /\ ShowsYellow(role_args[1]) /\ ~ShowsYellow(role_args[2])
    /\ Entry(role_args[1]).area > Entry(role_args[2]).area
    /\ ~Entry(role_args[1]).name_gt_hint /\ Entry(role_args[2]).name_gt_hint
    /\ SortsBefore(role_args[1], role_args[2])
    /\ RolesAre(role_args[2], role_args[1])

\* The pixel area of the image that was read from the file at a path.
PixelArea(path) == ImageOf(path).shape[1] * ImageOf(path).shape[2]

\* C18: if both or neither of the two images show yellow and their pixel areas
\* differ, the one with the smaller pixel area is the ground truth, whatever
\* the yellow counts, filename hints and argument order.
C18_SmallerAreaDecides ==
    \A p1 \in Range(all_paths) : \A p2 \in Range(all_paths) :
        ( /\ Classified(p1, p2)
          /\ ShowsYellow(p1) = ShowsYellow(p2)
          /\ PixelArea(p1) < PixelArea(p2) ) => RolesAre(p2, p1)

ContainsGtToken(path) == \E h \in GtHints : IsSubstring(h, Lower(path))

\* The two images are tied after the yellow, area and yellow-count stages.
TiedAfterStage3(p1, p2) ==
    /\ ShowsYellow(p1) = ShowsYellow(p2)
    /\ Entry(p1).area = Entry(p2).area
    /\ ImageOf(p1).yellow_count = ImageOf(p2).yellow_count

-----------------------------------------------------------------------------
(* Properties of the assigner's enumeration, threshold, order and greedy pass *)

IndexedPaths == { idx[i].key : i \in DOMAIN idx }

\* The calls of the scorer on the two paths p and q, in either order.
CallsOn(p, q) ==
    { k \in DOMAIN score_calls : score_calls[k] \in {<<p, q>>, <<q, p>>} }

\* C21: in a run over n indexed images the scorer is called exactly once for
\* every two different images, n*(n-1)/2 times in all, never in both orders
\* and never on an image with itself.
C21_ScoredOncePerPair ==
    apc = "recommended" =>
        /\ 2 * Len(score_calls) = Len(idx) * (Len(idx) - 1)
        /\ \A p \in IndexedPaths : \A q \in IndexedPaths :
              IF p = q THEN CallsOn(p, q) = {}
              ELSE Cardinality(CallsOn(p, q)) = 1

\* C21 witness: a pool of four of which three decoded: three calls.
C21_Witness ==
    /\ apc = "recommended"
    /\ Len(all_paths) = 4
    /\ Len(idx) = 3
    /\ Len(score_calls) = 3

\* The pool pairs whose two paths are those of Correspondence r.
PairOf(r) == { ij \in PoolPairs : {idx[ij[1]].key, idx[ij[2]].key} = PathsOf(r) }

IsReturned(ij) == \E k \in DOMAIN recos : PathsOf(recos[k]) = {idx[ij[1]].key, idx[ij[2]].key}

\* C22: every returned Correspondence is a pool pair with its own score, which
\* is at least 15; a pair scoring less than 15 is not returned, and a pair
\* scoring at least 15 is left out only when one of its images is in a
\* returned Correspondence (never because of a pair scoring less than 15).
C22_BelowThresholdDiscarded ==
    apc = "recommended" =>
        /\ \A k \in DOMAIN recos :
              /\ recos[k].score >= 15
              /\ \E ij \in PairOf(recos[k]) : PoolScore(ij[1], ij[2]) = recos[k].score
        /\ \A ij \in PoolPairs :
              /\ PoolScore(ij[1], ij[2]) < 15 => ~IsReturned(ij)
              /\ (PoolScore(ij[1], ij[2]) >= 15 /\ ~IsReturned(ij))
                    => {idx[ij[1]].key, idx[ij[2]].key} \cap RecommendedPaths # {}

\* C22 witness: of four images the first two score 23 and were returned; the
\* other two score 8 with each other and are in no Correspondence.
C22_Witness ==
    /\ apc = "recommended"
    /\ Len(idx) = 4
    /\ PoolScore(1, 2) = 23
    /\ PoolScore(3, 4) = 8
    /\ Len(recos) = 1
    /\ RecommendedPaths = {idx[1].key, idx[2].key}

\* C23: the returned Correspondences are in non-increasing score order and
\* there are at most 100 of them.
C23_ScoreOrderAndCap ==
    apc = "recommended" =>
        /\ \A k \in 1..(Len(recos) - 1) : recos[k].score >= recos[k + 1].score
        /\ Len(recos) <= 100

\* C23 witness: 102 candidate pairs without a common image, listed with
\* growing scores; 100 were returned, the best first.
C23_Witness ==
    /\ apc = "recommended"
    /\ Len(cand_pairs) = 102
    /\ \A k \in 1..101 : cand_pairs[k].score < cand_pairs[k + 1].score
    /\ Len(recos) = 100
    /\ recos[1] = cand_pairs[102]
    /\ recos[100] = cand_pairs[3]

\* Candidate b has its turn before candidate a: it has the greater score, or
\* the same score and the earlier place in the list.
TurnBefore(b, a) ==
    \/ cand_pairs[b].score > cand_pairs[a].score
    \/ (cand_pairs[b].score = cand_pairs[a].score /\ b < a)

ReturnedSet == Range(recos)

AcceptedBefore(a) == { b \in DOMAIN cand_pairs : TurnBefore(b, a) /\ cand_pairs[b] \in ReturnedSet }

\* C24: a candidate pair is returned if and only if, at its turn, none of the
\* pairs accepted before it has one of its images and fewer than 100 pairs
\* have been accepted; nothing else is returned; and when fewer than 100
\* pairs are returned every candidate left out shares an image with a returned
\* pair of greater or equal score.
C24_GreedyRule ==
    apc = "recommended" =>
        /\ ReturnedSet \subseteq Range(cand_pairs)
        /\ Len(recos) = Cardinality(ReturnedSet)
        /\ \A a \in DOMAIN cand_pairs :
              cand_pairs[a] \in ReturnedSet
                 <=> /\ \A b \in AcceptedBefore(a) :
                           PathsOf(cand_pairs[b]) \cap PathsOf(cand_pairs[a]) = {}
                     /\ Cardinality(AcceptedBefore(a)) < 100
        /\ Len(recos) < 100 =>
              \A a \in DOMAIN cand_pairs :
                 cand_pairs[a] \notin ReturnedSet
                    => \E k \in DOMAIN recos :
                          /\ PathsOf(recos[k]) \cap PathsOf(cand_pairs[a]) # {}
                          /\ recos[k].score >= cand_pairs[a].score

\* C24 witness: of three candidates the second was left out because it shares
\* an image with the first, and the third, which shares an image with the
\* second, was returned.
C24_Witness ==
    /\ apc = "recommended"
    /\ Len(cand_pairs) = 3
    /\ Len(recos) = 2
    /\ cand_pairs[2] \notin ReturnedSet
    /\ PathsOf(cand_pairs[1]) \cap PathsOf(cand_pairs[2]) # {}
    /\ PathsOf(cand_pairs[2]) \cap PathsOf(cand_pairs[3]) # {}
    /\ cand_pairs[3] \in ReturnedSet

-----------------------------------------------------------------------------
(* Properties of build_hash_index and of the index during resolving *)

\* The image, the metadata sidecar and a device sidecar (under either of its
\* two names) of original p exist.
TripletExists(p) ==
    LET base == BaseName(p[2])
    IN  /\ p \in files
        /\ JsonPath(p[1], base) \in files
        /\ (AnonDicomPath(p[1], base) \in files \/ AltDicomPath(p[1], base) \in files)

\* C25: at every point during and after build_hash_index, every entry of the
\* index is of an original of the mapping whose image, metadata sidecar and
\* device sidecar exist, with the three paths of the entry among them; an
\* original missing one of the three has no entry.
C25_TripletComplete ==
    /\ \A i \in DOMAIN hash_index :
          LET e == hash_index[i].val
          IN  /\ e.original_path \in ManifestPngs(json_data)
              /\ TripletExists(e.original_path)
              /\ EntryIsOf(e, e.original_path)
    /\ \A p \in ManifestPngs(json_data) :
          ~TripletExists(p) => \A i \in DOMAIN hash_index : hash_index[i].val.original_path # p

\* C25 witness: while the index is being built, an original without device
\* sidecar has been passed over and one whose device sidecar has the
\* alternative name has been inserted.
C25_Witness ==
    /\ pc = "index"
    /\ Len(hash_index) = 1
    /\ hash_index[1].val.triplet.dicom
          = AltDicomPath(hash_index[1].val.original_path[1],
                         BaseName(hash_index[1].val.original_path[2]))
    /\ \E p \in ManifestPngs(json_data) :
          /\ p \in files /\ JsonPath(p[1], BaseName(p[2])) \in files
          /\ ~TripletExists(p)
          /\ ProcessedBefore(p, hash_index[1].val.original_path)

\* build_hash_index has gone past position i of folder f of the mapping.
Examined(f, i) == pc # "index" \/ f < fi \/ (f = fi /\ pi > i)

\* C26: build_hash_index goes through the whole mapping whatever it skips: an
\* original has been inserted exactly if indexing has gone past it, its three
\* files exist and its image decodes, so that a missing folder, a missing
\* image, an incomplete triplet or an image that fails to hash before it does
\* not keep it out of the index.
C26_SkipsDoNotAbort ==
    \A f \in DOMAIN json_data : \A i \in DOMAIN json_data[f].files :
        LET p == JoinPath(NormalizeFolder(json_data[f].folder), json_data[f].files[i])
        IN  (\E k \in DOMAIN indexed_log : indexed_log[k] = p)
               <=> (Examined(f, i) /\ TripletExists(p) /\ Decodable(content[p]))

\* C26 witness: indexing has ended, and an original was inserted after an
\* entry of the mapping before it was skipped: for an image that does not
\* decode, or for a missing folder.
C26_Witness ==
    /\ pc = "built"
    /\ \E p, q \in ManifestPngs(json_data) :
          /\ ProcessedBefore(p, q)
          /\ \/ TripletExists(p) /\ ~Decodable(content[p])
             \/ p[1] \notin folders
          /\ \E k \in DOMAIN indexed_log : indexed_log[k] = q

\* C27: once build_hash_index has returned, no step of the resolving pass
\* (find_matching_original, process_filtered_images, the report) changes the
\* hash index: it is only read.
C27_IndexReadOnly ==
    [][(pc \in {"built", "batch"}) => (hash_index' = hash_index)]_vars

\* C27 witness: against an index of two entries, the batch has resolved one
\* derivative to an entry and found no original for another.
C27_Witness ==
    /\ pc = "batch"
    /\ Len(hash_index) >= 2
    /\ \E i, j \in DOMAIN walk_log :
          /\ walk_log[i].match # <<>>
          /\ walk_log[i].output_dir # <<>>
          /\ walk_log[j].match = <<>>

-----------------------------------------------------------------------------
(* Properties of the viewers, the selections and the recommendation table *)

\* The open viewers whose radio buttons show the role.
Showing(role) == { v \in DOMAIN viewers : viewers[v].selection_type = role }

\* C28: in every state of the window, at most one open viewer shows raw and
\* at most one shows ground_truth, current_selections does not record one
\* viewer for both roles, it records open viewers only, and a viewer shows a
\* role exactly when current_selections records it for that role.
C28_RolesExclusive ==
    /\ \A role \in Roles : Cardinality(Showing(role)) <= 1
    /\ ~(current_selections.raw # <<>>
           /\ current_selections.raw = current_selections.ground_truth)
    /\ \A role \in Roles :
          current_selections[role] # <<>> => current_selections[role][1] \in DOMAIN viewers
    /\ \A role \in Roles : \A v \in DOMAIN viewers :
          v \in Showing(role) <=> current_selections[role] = <<v>>

\* C28 witness: after a save has cleared every selection and a viewer has
\* been closed, two viewers hold the two roles.
C28_Witness ==
    /\ processed_files # {}
    /\ Cardinality(DOMAIN viewers) < viewer_counter
    /\ current_selections.raw # <<>>
    /\ current_selections.ground_truth # <<>>

\* A step has written the raw and the ground-truth file of a new numbered pair.
PairSavedInStep ==
    /\ id_counter' = id_counter + 1
    /\ {<<id_counter', "raw">>, <<id_counter', "ground_truth">>} \subseteq out_files'

\* C29: a step of approve_selected_reco that takes a recommendation off the
\* list is one in which save_match has saved the pair.
C29_RemovedOnlyWhenSaved ==
    [][(ApproveSelectedReco /\ recommendations' # recommendations) => PairSavedInStep]_vars

\* current_selections records for the role an open viewer whose current image
\* is the file at path.
HolderShows(role, path) ==
    /\ current_selections[role] # <<>>
    /\ current_selections[role][1] \in DOMAIN viewers
    /\ CurrentImageInfo(viewers[current_selections[role][1]]) = <<path>>

\* C30: after on_reco_selected has loaded a recommendation, current_selections
\* records for raw a viewer showing the recommended raw file and for
\* ground_truth a different viewer showing the recommended ground-truth file.
C30_PairPreselected ==
    [][\A row \in 0..(Len(recommendations) - 1) :
          OnRecoSelected(row) =>
             /\ HolderShows("raw", recommendations[row + 1].raw)'
             /\ HolderShows("ground_truth", recommendations[row + 1].gt)'
             /\ current_selections'.raw # current_selections'.ground_truth]_vars

====
